---- MODULE Spec2Model ----
(***************************************************************************)
(* Model of the batch search orchestration of Google-Search-Tool-GUI:      *)
(*   - SearchTool.run / run_search / save_results / signal handler         *)
(*     (src/src/search_tool.py), driven from the command line ("cli") or   *)
(*     by a host that calls run_search itself on one instance ("lib");     *)
(*   - SearchWorker.run and the GoogleSearchGUI slots it is connected to   *)
(*     (src/src/gui_main.py), mode "gui".                                  *)
(* The search engine, the CSV writer and the operator (signals, clicks)    *)
(* are the environment: every outcome they can produce is an input.        *)
(***************************************************************************)
EXTENDS Integers, Sequences, FiniteSets, TLC

\* ---------------------------------------------------------------- bounds
\* longest keyword list handed to one run
MaxKeywords == 3
\* keywords submitted to one SearchTool / one GUI over its whole life
MaxCalls == 3
\* run_search calls on one SearchTool / workers started by one GUI
MaxRuns == 2

\* attempts the engine makes for one keyword before it gives the keyword up
RetryBudget == 2

Keywords == {"a", "b"}

\* what one call of search_engine.search_single_keyword can produce:
\*   ok       a SearchResult whose success message can be formatted
\*   badTitle a SearchResult whose title cannot be sliced/printed, so that
\*            line 224 raises after the result was appended
\*   none     None (no result, no error)
\*   err      an Exception
\*   kbd      KeyboardInterrupt
\* (one action of the model for each)

\* the Exceptions a search call can raise: an ordinary failure of the keyword
\* (err), or an authentication failure that every later call will meet too (auth);
\* the handlers of run_search and of the worker do not tell them apart
ErrorClasses == {"err", "auth"}

\* what csv_writer.write_results can produce: a path, None, or an Exception
WriterOutcomes == {"path", "none", "raise"}

RECURSIVE SeqsUpTo(_, _)
SeqsUpTo(S, n) ==
    IF n = 0 THEN {<<>>}
    ELSE LET shorter == SeqsUpTo(S, n - 1)
         IN  shorter \cup {Append(s, x) : s \in {t \in shorter : Len(t) = n - 1}, x \in S}

KeywordLists == SeqsUpTo(Keywords, MaxKeywords)

Delays == {0, 1}

VARIABLES
    mode,                \* "cli" | "lib" | "gui"
    pc,                  \* position of SearchTool.run / run_search / SearchWorker.run
    keywords,            \* the keyword list of the current run
    search_delay,        \* the inter-keyword delay of the current run
    i,                   \* 1-based index of the loop (enumerate(keywords, 1))
    results,             \* the run's local result list
    successful_results,  \* SearchTool.successful_results
    failed_keywords,     \* SearchTool.failed_keywords
    processed_keywords,  \* SearchTool.processed_keywords
    interrupted,         \* SearchTool.interrupted
    runs,                \* run_search calls / workers started so far
    clock,               \* engine calls made so far (stamps search_datetime)
    portLog,             \* calls made on the ports during the current run, each with the
                         \* keyword index it belongs to and the engine time
    outstanding,         \* engine calls started and not yet returned
    saves,               \* calls of csv_writer.write_results
    cleanups,            \* calls of SearchTool._cleanup
    exitCode,            \* -1 while running, else the process exit code
    signal_pc,           \* where the main thread was when a signal arrived ("" if none)
    is_running,          \* SearchWorker.is_running
    queue,               \* worker signals queued for the GUI thread
    gui,                 \* GUI thread: "idle", or "waiting" inside search_worker.wait()
    dialogs,             \* open modal message boxes, innermost last
    search_btn,          \* search_btn.isEnabled()
    stop_btn,            \* stop_btn.isEnabled()
    search_results,      \* GoogleSearchGUI.search_results
    progress,            \* last value emitted through progress_updated
    emitted,             \* signals the current worker has emitted, in order
    stopClicked,         \* the operator has pressed the stop button for this worker
    args,                \* the parsed command line: the input source and what it holds
    attempts,            \* attempts the engine has lost inside the search call under way
    environ,             \* what ConfigManager() finds: the configuration file, os.environ
                         \* and its skip_validation argument
    config_data,         \* ConfigManager.config_data
    output_file          \* what save_results returned to a host that called it ("" if
                         \* it has not)

inputVars == <<keywords, search_delay>>
listVars == <<results, successful_results, failed_keywords, processed_keywords>>
envVars == <<clock, portLog, outstanding>>
endVars == <<saves, cleanups, exitCode, signal_pc>>
guiVars == <<is_running, queue, gui, dialogs, search_btn, stop_btn, search_results,
             progress, emitted, stopClicked>>

cfgVars == <<environ, config_data>>

vars == <<mode, pc, i, interrupted, runs, inputVars, listVars, envVars, endVars, guiVars,
         args, attempts, cfgVars, output_file>>

n == Len(keywords)

\* a SearchResult: the keyword it answers and the time it was retrieved
Result(kw, t) == [keyword |-> kw, search_datetime |-> t]

\* no command line is looked at: whatever the source, process_input gives a list
NoArgs == [source |-> "any"]

\* ConfigManager.__init__, line 43: config_data starts as an empty dict
EmptyDict == [k \in {} |-> {}]

\* no configuration file, nothing in the environment
NoEnviron == [readable |-> FALSE, file |-> EmptyDict, env |-> EmptyDict,
              skip_validation |-> FALSE]

Init ==
    /\ mode \in {"cli", "lib", "gui"}
    /\ pc = IF mode = "gui" THEN "noworker" ELSE "start"
    /\ keywords = <<>>
    /\ search_delay = 0
    /\ i = 0
    /\ results = <<>>
    /\ successful_results = <<>>
    /\ failed_keywords = <<>>
    /\ processed_keywords = <<>>
    /\ interrupted = FALSE
    /\ runs = 0
    /\ clock = 0
    /\ portLog = <<>>
    /\ outstanding = 0
    /\ saves = <<>>
    /\ cleanups = 0
    /\ exitCode = -1
    /\ signal_pc = ""
    /\ is_running = FALSE
    /\ queue = <<>>
    /\ gui = "idle"
    /\ dialogs = <<>>
    /\ search_btn = TRUE
    /\ stop_btn = FALSE
    /\ search_results = <<>>
    /\ progress = 0
    /\ emitted = <<>>
    /\ stopClicked = FALSE
    /\ args = NoArgs
    /\ attempts = 0
    /\ environ = NoEnviron
    /\ config_data = EmptyDict
    /\ output_file = ""

\* ---------------------------------------------------------------- ports

\* search_engine.validate_connection() called through test_connection, which
\* reports True, or False (validate_connection returned False or raised)
LogValidate(ok) ==
    Append(portLog, [op |-> IF ok THEN "validate_ok" ELSE "validate_fail", i |-> 0,
                     t |-> clock])

\* search_engine.search_single_keyword(keyword) is entered
LogSearch == Append(portLog, [op |-> "search", i |-> i, t |-> clock + 1])

\* search_engine.search_single_keyword(keyword) returns or raises
LogReturn(o) == Append(portLog, [op |-> o, i |-> i, t |-> clock])

\* time.sleep(search_delay) / msleep after keyword i
LogSleep == Append(portLog, [op |-> "sleep", i |-> i, t |-> clock])

\* csv_writer.write_results(rs, filename) with outcome w
LogSave(kind, rs, w) == Append(saves, [kind |-> kind, results |-> rs, outcome |-> w])

\* ------------------------------------------------------------ SearchTool.run

\* `return code` inside run's try: the finally clause runs _cleanup
Return(code) ==
    /\ pc' = "done"
    /\ exitCode' = code
    /\ cleanups' = cleanups + 1
    /\ UNCHANGED <<saves, signal_pc>>

\* run, line 341: initialize() sets config, logger, engine and writer, or fails
Initialize ==
    /\ mode = "cli" /\ pc = "start"
    /\ \E ok \in BOOLEAN :
         IF ok THEN pc' = "args" /\ UNCHANGED endVars
               ELSE Return(1)
    /\ UNCHANGED <<mode, output_file, cfgVars, args, attempts, i, interrupted, runs, inputVars, listVars, envVars, guiVars>>

\* run, lines 349-350: --test-connection only validates the connection
ConnectionTestOnly ==
    /\ mode = "cli" /\ pc = "args"
    /\ \E ok \in BOOLEAN :
         /\ portLog' = LogValidate(ok)
         /\ Return(IF ok THEN 0 ELSE 1)
    /\ UNCHANGED <<mode, output_file, cfgVars, args, attempts, i, interrupted, runs, inputVars, listVars, clock, outstanding,
                   guiVars>>

\* run, lines 353-356: process_input returns the keyword list (possibly empty)
ProcessInput ==
    /\ mode = "cli" /\ pc = "args"
    /\ \E ks \in KeywordLists, d \in Delays :
         /\ keywords' = ks
         /\ search_delay' = d
         /\ IF ks = <<>> THEN Return(1) /\ UNCHANGED runs
                         ELSE pc' = "conn" /\ UNCHANGED <<endVars, runs>>
    /\ UNCHANGED <<mode, output_file, cfgVars, args, attempts, i, interrupted, listVars, envVars, guiVars>>

\* run, lines 353 and 383-387: process_input raises InputProcessorError
ProcessInputRaises ==
    /\ mode = "cli" /\ pc = "args"
    /\ Return(1)
    /\ UNCHANGED <<mode, output_file, cfgVars, args, attempts, i, interrupted, runs, inputVars, listVars, envVars, guiVars>>

\* TestConnection with the result of test_connection ignored
TestConnection_IgnoresFailure ==
    /\ mode = "cli" /\ pc = "conn"
    /\ \E ok \in BOOLEAN :
         /\ portLog' = LogValidate(ok)
         /\ pc' = "run_search" /\ runs' = runs + 1 /\ UNCHANGED endVars
    /\ UNCHANGED <<mode, output_file, cfgVars, args, attempts, i, interrupted, inputVars, listVars, clock, outstanding, guiVars>>

\* run, lines 359-361: test_connection; False (or an exception inside it) ends the run
TestConnection ==
    /\ mode = "cli" /\ pc = "conn"
    /\ \E ok \in BOOLEAN :
         /\ portLog' = LogValidate(ok)
         /\ IF ok THEN pc' = "run_search" /\ runs' = runs + 1 /\ UNCHANGED endVars
                  ELSE Return(1) /\ UNCHANGED runs
    /\ UNCHANGED <<mode, output_file, cfgVars, args, attempts, i, interrupted, inputVars, listVars, clock, outstanding, guiVars>>

\* ----------------------------------------------- a host calling run_search

\* initialize_for_test: logger, engine and writer are set, or it fails
InitializeForTest ==
    /\ mode = "lib" /\ pc = "start"
    /\ \E ok \in BOOLEAN : pc' = IF ok THEN "idle" ELSE "done"
    /\ UNCHANGED <<mode, output_file, cfgVars, args, attempts, i, interrupted, runs, inputVars, listVars, envVars, endVars,
                   guiVars>>

\* the host calls run_search(keywords, search_delay) on the same instance
CallRunSearch ==
    /\ mode = "lib" /\ pc = "idle"
    /\ runs < MaxRuns
    /\ \E ks \in KeywordLists, d \in Delays :
         /\ clock + Len(ks) <= MaxCalls
         /\ keywords' = ks
         /\ search_delay' = d
    /\ runs' = runs + 1
    /\ portLog' = <<>>
    /\ pc' = "run_search"
    /\ UNCHANGED <<mode, output_file, cfgVars, args, attempts, i, interrupted, listVars, clock, outstanding, endVars, guiVars>>

\* ------------------------------------------------------ SearchTool.run_search

\* RunSearchBegin that starts every run with the flag cleared
RunSearchBegin_ClearsFlag ==
    /\ mode \in {"cli", "lib"} /\ pc = "run_search"
    /\ results' = <<>>
    /\ interrupted' = FALSE
    /\ IF keywords = <<>> THEN pc' = "returned" /\ UNCHANGED i
                          ELSE pc' = "loop" /\ i' = 1
    /\ UNCHANGED <<mode, output_file, cfgVars, args, attempts, runs, inputVars, successful_results,
                   failed_keywords, processed_keywords, envVars, endVars, guiVars>>

\* lines 195-205: an empty list returns at once, else the locals are set up
RunSearchBegin ==
    /\ mode \in {"cli", "lib"} /\ pc = "run_search"
    /\ results' = <<>>
    /\ IF keywords = <<>> THEN pc' = "returned" /\ UNCHANGED i
                          ELSE pc' = "loop" /\ i' = 1
    /\ UNCHANGED <<mode, output_file, cfgVars, args, attempts, interrupted, runs, inputVars, successful_results,
                   failed_keywords, processed_keywords, envVars, endVars, guiVars>>

\* line 207: the for loop has no keyword left
LoopExhausted ==
    /\ mode \in {"cli", "lib"} /\ pc = "loop"
    /\ i > n
    /\ pc' = "summary"
    /\ UNCHANGED <<mode, output_file, cfgVars, args, attempts, i, interrupted, runs, inputVars, listVars, envVars, endVars,
                   guiVars>>

\* lines 208-210: the flag is set, break
LoopInterrupted ==
    /\ mode \in {"cli", "lib"} /\ pc = "loop"
    /\ i <= n
    /\ interrupted
    /\ pc' = "summary"
    /\ UNCHANGED <<mode, output_file, cfgVars, args, attempts, i, interrupted, runs, inputVars, listVars, envVars, endVars,
                   guiVars>>

\* SearchCall that does not wait for the call to end before the next keyword
SearchCall_NoWait ==
    /\ mode \in {"cli", "lib"} /\ pc = "loop"
    /\ i <= n
    /\ ~interrupted
    /\ portLog' = LogSearch
    /\ clock' = clock + 1
    /\ outstanding' = outstanding + 1
    /\ i' = i + 1
    /\ attempts' = 0
    /\ UNCHANGED <<mode, output_file, cfgVars, args, pc, interrupted, runs, inputVars, listVars, endVars, guiVars>>

\* SearchCall without the test of the flag
SearchCall_FlagNotChecked ==
    /\ mode \in {"cli", "lib"} /\ pc = "loop"
    /\ i <= n
    /\ portLog' = LogSearch
    /\ clock' = clock + 1
    /\ outstanding' = outstanding + 1
    /\ pc' = "searching"
    /\ attempts' = 0
    /\ UNCHANGED <<mode, output_file, cfgVars, args, i, interrupted, runs, inputVars, listVars, endVars, guiVars>>

\* lines 208-219: the flag is clear, search_single_keyword(keyword) is entered
\* (nothing but the signal handler, which never returns, runs between the test
\* and the call)
SearchCall ==
    /\ mode \in {"cli", "lib"} /\ pc = "loop"
    /\ i <= n
    /\ ~interrupted
    /\ portLog' = LogSearch
    /\ clock' = clock + 1
    /\ outstanding' = outstanding + 1
    /\ pc' = "searching"
    /\ attempts' = 0
    /\ UNCHANGED <<mode, output_file, cfgVars, args, i, interrupted, runs, inputVars, listVars, endVars, guiVars>>

\* inside search_engine.search_single_keyword: an attempt fails with a retryable
\* error (timeout, server error, rate limit) and the budget allows another attempt,
\* which the engine makes after its fixed retry delay. The caller sees nothing.
\* A retryable failure of the last attempt the budget allows, and a failure that
\* is not retryable, end the call (SearchNoResult, SearchRaises and the worker's).
EngineRetry ==
    /\ pc \in {"searching", "w_searching"}
    /\ attempts + 1 < RetryBudget
    /\ attempts' = attempts + 1
    /\ UNCHANGED <<mode, output_file, cfgVars, args, pc, i, interrupted, runs, inputVars, listVars, envVars,
                   endVars, guiVars>>

\* SearchSucceeds that gives up a keyword whose call needed more than one attempt
SearchSucceeds_RetriedIsFailed ==
    /\ mode \in {"cli", "lib"} /\ pc = "searching"
    /\ portLog' = LogReturn("ok")
    /\ outstanding' = outstanding - 1
    /\ IF attempts = 0
       THEN /\ results' = Append(results, Result(keywords[i], clock))
            /\ successful_results' = Append(successful_results, Result(keywords[i], clock))
            /\ UNCHANGED failed_keywords
       ELSE /\ failed_keywords' = Append(failed_keywords, keywords[i])
            /\ UNCHANGED <<results, successful_results>>
    /\ processed_keywords' = Append(processed_keywords, keywords[i])
    /\ pc' = "pace"
    /\ attempts' = 0
    /\ UNCHANGED <<mode, output_file, cfgVars, args, i, interrupted, runs, inputVars, clock,
                   endVars, guiVars>>

\* SearchSucceeds with the new result put in front of the list
SearchSucceeds_Prepends ==
    /\ mode \in {"cli", "lib"} /\ pc = "searching"
    /\ portLog' = LogReturn("ok")
    /\ outstanding' = outstanding - 1
    /\ results' = <<Result(keywords[i], clock)>> \o results
    /\ successful_results' = Append(successful_results, Result(keywords[i], clock))
    /\ processed_keywords' = Append(processed_keywords, keywords[i])
    /\ pc' = "pace"
    /\ attempts' = 0
    /\ UNCHANGED <<mode, output_file, cfgVars, args, i, interrupted, runs, inputVars, failed_keywords, clock,
                   endVars, guiVars>>

\* lines 221-225 and 231: a result is returned and reported
SearchSucceeds ==
    /\ mode \in {"cli", "lib"} /\ pc = "searching"
    /\ portLog' = LogReturn("ok")
    /\ outstanding' = outstanding - 1
    /\ results' = Append(results, Result(keywords[i], clock))
    /\ successful_results' = Append(successful_results, Result(keywords[i], clock))
    /\ processed_keywords' = Append(processed_keywords, keywords[i])
    /\ pc' = "pace"
    /\ attempts' = 0
    /\ UNCHANGED <<mode, output_file, cfgVars, args, i, interrupted, runs, inputVars, failed_keywords, clock,
                   endVars, guiVars>>

\* lines 221-224 and 248-253: a result is returned and appended, then the success
\* message raises; the handler appends the keyword to failed_keywords and continues
SearchSucceedsReportRaises ==
    /\ mode \in {"cli", "lib"} /\ pc = "searching"
    /\ portLog' = LogReturn("badTitle")
    /\ outstanding' = outstanding - 1
    /\ results' = Append(results, Result(keywords[i], clock))
    /\ successful_results' = Append(successful_results, Result(keywords[i], clock))
    /\ failed_keywords' = Append(failed_keywords, keywords[i])
    /\ i' = i + 1
    /\ pc' = "loop"
    /\ attempts' = 0
    /\ UNCHANGED <<mode, output_file, cfgVars, args, interrupted, runs, inputVars, processed_keywords, clock,
                   endVars, guiVars>>

\* SearchNoResult that takes the empty answer for a result
SearchNoResult_KeepsNone ==
    /\ mode \in {"cli", "lib"} /\ pc = "searching"
    /\ portLog' = LogReturn("none")
    /\ outstanding' = outstanding - 1
    /\ results' = Append(results, Result(keywords[i], clock))
    /\ successful_results' = Append(successful_results, Result(keywords[i], clock))
    /\ processed_keywords' = Append(processed_keywords, keywords[i])
    /\ pc' = "pace"
    /\ attempts' = 0
    /\ UNCHANGED <<mode, output_file, cfgVars, args, i, interrupted, runs, inputVars,
                   failed_keywords, clock, endVars, guiVars>>

\* lines 226-231: None is returned
SearchNoResult ==
    /\ mode \in {"cli", "lib"} /\ pc = "searching"
    /\ portLog' = LogReturn("none")
    /\ outstanding' = outstanding - 1
    /\ failed_keywords' = Append(failed_keywords, keywords[i])
    /\ processed_keywords' = Append(processed_keywords, keywords[i])
    /\ pc' = "pace"
    /\ attempts' = 0
    /\ UNCHANGED <<mode, output_file, cfgVars, args, i, interrupted, runs, inputVars, results, successful_results,
                   clock, endVars, guiVars>>

\* lines 248-253: the call raises an Exception, continue
SearchRaises ==
    /\ mode \in {"cli", "lib"} /\ pc = "searching"
    /\ \E e \in ErrorClasses : portLog' = LogReturn(e)
    /\ outstanding' = outstanding - 1
    /\ failed_keywords' = Append(failed_keywords, keywords[i])
    /\ i' = i + 1
    /\ pc' = "loop"
    /\ attempts' = 0
    /\ UNCHANGED <<mode, output_file, cfgVars, args, interrupted, runs, inputVars, results, successful_results,
                   processed_keywords, clock, endVars, guiVars>>

\* lines 243-246: the call raises KeyboardInterrupt, break
SearchKeyboardInterrupt ==
    /\ mode \in {"cli", "lib"} /\ pc = "searching"
    /\ portLog' = LogReturn("kbd")
    /\ outstanding' = outstanding - 1
    /\ interrupted' = TRUE
    /\ pc' = "summary"
    /\ attempts' = 0
    /\ UNCHANGED <<mode, output_file, cfgVars, args, i, runs, inputVars, listVars, clock, endVars, guiVars>>

\* PaceWait that waits after the last keyword too
PaceWait_AfterLast ==
    /\ mode \in {"cli", "lib"} /\ pc = "pace"
    /\ search_delay > 0
    /\ portLog' = LogSleep
    /\ i' = i + 1
    /\ pc' = "loop"
    /\ UNCHANGED <<mode, output_file, cfgVars, args, attempts, interrupted, runs, inputVars, listVars, clock, outstanding,
                   endVars, guiVars>>

\* lines 238-241: wait before the next keyword
PaceWait ==
    /\ mode \in {"cli", "lib"} /\ pc = "pace"
    /\ i < n /\ search_delay > 0
    /\ portLog' = LogSleep
    /\ i' = i + 1
    /\ pc' = "loop"
    /\ UNCHANGED <<mode, output_file, cfgVars, args, attempts, interrupted, runs, inputVars, listVars, clock, outstanding,
                   endVars, guiVars>>

\* line 239: last keyword, or no delay configured: no wait
PaceSkip ==
    /\ mode \in {"cli", "lib"} /\ pc = "pace"
    /\ ~(i < n /\ search_delay > 0)
    /\ i' = i + 1
    /\ pc' = "loop"
    /\ UNCHANGED <<mode, output_file, cfgVars, args, attempts, interrupted, runs, inputVars, listVars, envVars, endVars,
                   guiVars>>

\* lines 255-260: the summary is displayed and the local results are returned
RunSearchReturn ==
    /\ mode \in {"cli", "lib"} /\ pc = "summary"
    /\ pc' = "returned"
    /\ UNCHANGED <<mode, output_file, cfgVars, args, attempts, i, interrupted, runs, inputVars, listVars, envVars, endVars,
                   guiVars>>

\* the host has the returned list and may call again
HostContinues ==
    /\ mode = "lib" /\ pc = "returned"
    /\ pc' = "idle"
    /\ UNCHANGED <<mode, output_file, cfgVars, args, attempts, i, interrupted, runs, inputVars, listVars, envVars, endVars,
                   guiVars>>

\* SaveAndExit that reports success whatever the writer did
SaveAndExit_MasksFailure ==
    /\ mode = "cli" /\ pc = "returned"
    /\ IF results = <<>>
       THEN Return(1)
       ELSE \E w \in WriterOutcomes :
              /\ saves' = LogSave("normal", results, w)
              /\ pc' = "done"
              /\ exitCode' = 0
              /\ cleanups' = cleanups + 1
              /\ UNCHANGED signal_pc
    /\ UNCHANGED <<mode, output_file, cfgVars, args, attempts, i, interrupted, runs, inputVars, listVars, envVars, guiVars>>

\* SaveAndExit that takes a run without results for a success
SaveAndExit_ZeroResultsOk ==
    /\ mode = "cli" /\ pc = "returned"
    /\ IF results = <<>>
       THEN Return(0)
       ELSE \E w \in WriterOutcomes :
              /\ saves' = LogSave("normal", results, w)
              /\ pc' = "done"
              /\ exitCode' = IF w = "path" THEN 0 ELSE 1
              /\ cleanups' = cleanups + 1
              /\ UNCHANGED signal_pc
    /\ UNCHANGED <<mode, output_file, cfgVars, args, attempts, i, interrupted, runs, inputVars, listVars, envVars, guiVars>>

\* run, lines 368-378, with save_results (lines 294-327)
SaveAndExit ==
    /\ mode = "cli" /\ pc = "returned"
    /\ IF results = <<>>
       THEN Return(1)
       ELSE \E w \in WriterOutcomes :
              /\ saves' = LogSave("normal", results, w)
              /\ pc' = "done"
              /\ exitCode' = IF w = "path" THEN 0 ELSE 1
              /\ cleanups' = cleanups + 1
              /\ UNCHANGED signal_pc
    /\ UNCHANGED <<mode, output_file, cfgVars, args, attempts, i, interrupted, runs, inputVars, listVars, envVars, guiVars>>

\* ------------------------------------------------------------ signal handler

\* the signal handler without the emergency save
SignalHandler_NoSave ==
    /\ mode \in {"cli", "lib"}
    /\ pc \notin {"start", "done", "exited"}
    /\ interrupted' = TRUE
    /\ UNCHANGED saves
    /\ cleanups' = cleanups + (IF mode = "cli" THEN 2 ELSE 1)
    /\ outstanding' = 0
    /\ exitCode' = 1
    /\ signal_pc' = pc
    /\ pc' = "exited"
    /\ attempts' = 0
    /\ UNCHANGED <<mode, output_file, cfgVars, args, i, runs, inputVars, listVars, clock, portLog, guiVars>>

\* lines 53-57 with _cleanup_and_exit (391-410): SIGINT/SIGTERM while the logger
\* exists. interrupted is set, a non-empty successful_results is saved under the
\* emergency name, _cleanup runs and sys.exit(1) unwinds the main thread; inside
\* run the finally clause runs _cleanup once more.
SignalHandler ==
    /\ mode \in {"cli", "lib"}
    /\ pc \notin {"start", "done", "exited"}
    /\ interrupted' = TRUE
    /\ IF successful_results = <<>>
       THEN UNCHANGED saves
       ELSE \E w \in WriterOutcomes :
              saves' = LogSave("emergency", successful_results, w)
    /\ cleanups' = cleanups + (IF mode = "cli" THEN 2 ELSE 1)
    /\ outstanding' = 0
    /\ exitCode' = 1
    /\ signal_pc' = pc
    /\ pc' = "exited"
    /\ attempts' = 0
    /\ UNCHANGED <<mode, output_file, cfgVars, args, i, runs, inputVars, listVars, clock, portLog, guiVars>>

\* lines 53-57 and 391-410, with a second SIGINT/SIGTERM delivered while the handler
\* is in _cleanup_and_exit, between its save and its _cleanup (nothing blocks or
\* ignores signals there, and Python runs the handler again inside the first one):
\* the second handler saves successful_results once more, runs _cleanup and
\* sys.exit(1), and the SystemExit unwinds the first handler and the main thread.
\* (With nothing to save the second signal changes only the number of log lines.
\* The two saves come within the same second, to the same emergency file name, and
\* the writer treats both the same way.)
SignalHandlerReentered ==
    /\ mode \in {"cli", "lib"}
    /\ pc \notin {"start", "done", "exited"}
    /\ successful_results # <<>>
    /\ interrupted' = TRUE
    /\ \E w \in WriterOutcomes :
          saves' = Append(LogSave("emergency", successful_results, w),
                          [kind |-> "emergency", results |-> successful_results,
                           outcome |-> w])
    /\ cleanups' = cleanups + (IF mode = "cli" THEN 2 ELSE 1)
    /\ outstanding' = 0
    /\ exitCode' = 1
    /\ signal_pc' = pc
    /\ pc' = "exited"
    /\ attempts' = 0
    /\ UNCHANGED <<mode, output_file, cfgVars, args, i, runs, inputVars, listVars, clock, portLog, guiVars>>

\* lines 53-54: a signal before initialize has set the logger: self.logger.info
\* raises AttributeError in the main thread, interrupted stays False
SignalBeforeLogger ==
    /\ mode \in {"cli", "lib"}
    /\ pc = "start"
    /\ pc' = "done"
    /\ exitCode' = 1
    /\ cleanups' = cleanups + (IF mode = "cli" THEN 1 ELSE 0)
    /\ signal_pc' = pc
    /\ UNCHANGED saves
    /\ UNCHANGED <<mode, output_file, cfgVars, args, attempts, i, interrupted, runs, inputVars, listVars, envVars, guiVars>>

\* ------------------------------------------------------- SearchWorker.run

\* pyqtSignal.emit from the worker thread: a queued call of the connected slot
Emit(sig, arg) ==
    /\ queue' = Append(queue, [sig |-> sig, arg |-> arg])
    /\ emitted' = Append(emitted, sig)

\* lines 55-58 and 107-108: constructing the SearchTool or initialize_for_gui fails
\* (src/src/search_tool.py declares __init__(self) without setup_signals and no
\* initialize_for_gui, so with that file the construction raises TypeError): the
\* error signal is emitted and run returns. With a SearchTool that offers the GUI
\* interface the worker goes on to the connection test.
WorkerInit ==
    /\ mode = "gui" /\ pc = "w_init"
    /\ \E ok \in BOOLEAN :
         IF ok THEN pc' = "w_conn" /\ UNCHANGED <<queue, emitted>>
               ELSE pc' = "w_done" /\ Emit("error_occurred", <<>>)
    /\ UNCHANGED <<mode, output_file, cfgVars, args, attempts, i, interrupted, runs, inputVars, listVars, envVars, endVars,
                   is_running, gui, dialogs, search_btn, stop_btn, search_results,
                   progress, stopClicked>>

\* lines 61-66: test_connection; on failure the error signal is emitted and run returns
WorkerTestConnection ==
    /\ mode = "gui" /\ pc = "w_conn"
    /\ \E ok \in BOOLEAN :
         /\ portLog' = LogValidate(ok)
         /\ IF ok THEN /\ pc' = "w_loop"
                       /\ results' = <<>>
                       /\ i' = 1
                       /\ UNCHANGED <<queue, emitted>>
                  ELSE /\ pc' = "w_done"
                       /\ Emit("error_occurred", <<>>)
                       /\ UNCHANGED <<results, i>>
    /\ UNCHANGED <<mode, output_file, cfgVars, args, attempts, interrupted, runs, inputVars, successful_results,
                   failed_keywords, processed_keywords, clock, outstanding, endVars,
                   is_running, gui, dialogs, search_btn, stop_btn, search_results,
                   progress, stopClicked>>

\* line 68: the for loop has no keyword left
WorkerLoopExhausted ==
    /\ mode = "gui" /\ pc = "w_loop"
    /\ i > n
    /\ pc' = "w_finish"
    /\ UNCHANGED <<mode, output_file, cfgVars, args, attempts, i, interrupted, runs, inputVars, listVars, envVars, endVars,
                   guiVars>>

\* lines 69-70: is_running is False, break
WorkerLoopStopped ==
    /\ mode = "gui" /\ pc = "w_loop"
    /\ i <= n
    /\ ~is_running
    /\ pc' = "w_finish"
    /\ UNCHANGED <<mode, output_file, cfgVars, args, attempts, i, interrupted, runs, inputVars, listVars, envVars, endVars,
                   guiVars>>

\* WorkerLoopRunning without the test of is_running
WorkerLoopRunning_FlagNotChecked ==
    /\ mode = "gui" /\ pc = "w_loop"
    /\ i <= n
    /\ progress' = ((i - 1) * 100) \div n
    /\ pc' = "w_call"
    /\ UNCHANGED <<mode, output_file, cfgVars, args, attempts, i, interrupted, runs, inputVars, listVars, envVars, endVars,
                   is_running, queue, gui, dialogs, search_btn, stop_btn, search_results,
                   emitted, stopClicked>>

\* lines 69-74: is_running is True: the progress of keyword i is emitted
WorkerLoopRunning ==
    /\ mode = "gui" /\ pc = "w_loop"
    /\ i <= n
    /\ is_running
    /\ progress' = ((i - 1) * 100) \div n
    /\ pc' = "w_call"
    /\ UNCHANGED <<mode, output_file, cfgVars, args, attempts, i, interrupted, runs, inputVars, listVars, envVars, endVars,
                   is_running, queue, gui, dialogs, search_btn, stop_btn, search_results,
                   emitted, stopClicked>>

\* line 78: search_single_keyword(keyword) is entered
WorkerSearchCall ==
    /\ mode = "gui" /\ pc = "w_call"
    /\ portLog' = LogSearch
    /\ clock' = clock + 1
    /\ outstanding' = outstanding + 1
    /\ pc' = "w_searching"
    /\ attempts' = 0
    /\ UNCHANGED <<mode, output_file, cfgVars, args, i, interrupted, runs, inputVars, listVars, endVars, guiVars>>

\* lines 79-89: a result is returned, appended and emitted through result_found
WorkerSearchSucceeds ==
    /\ mode = "gui" /\ pc = "w_searching"
    /\ portLog' = LogReturn("ok")
    /\ outstanding' = outstanding - 1
    /\ results' = Append(results, Result(keywords[i], clock))
    /\ Emit("result_found", <<Result(keywords[i], clock)>>)
    /\ pc' = "w_pace"
    /\ attempts' = 0
    /\ UNCHANGED <<mode, output_file, cfgVars, args, i, interrupted, runs, inputVars, successful_results,
                   failed_keywords, processed_keywords, clock, endVars,
                   is_running, gui, dialogs, search_btn, stop_btn, search_results,
                   progress, stopClicked>>

\* lines 90-91: None is returned
WorkerSearchNoResult ==
    /\ mode = "gui" /\ pc = "w_searching"
    /\ portLog' = LogReturn("none")
    /\ outstanding' = outstanding - 1
    /\ pc' = "w_pace"
    /\ attempts' = 0
    /\ UNCHANGED <<mode, output_file, cfgVars, args, i, interrupted, runs, inputVars, listVars, clock, endVars,
                   guiVars>>

\* lines 98-101: the call raises an Exception: error_occurred is emitted and the
\* loop goes on with the next keyword
WorkerSearchRaises ==
    /\ mode = "gui" /\ pc = "w_searching"
    /\ \E e \in ErrorClasses : portLog' = LogReturn(e)
    /\ outstanding' = outstanding - 1
    /\ Emit("error_occurred", <<>>)
    /\ i' = i + 1
    /\ pc' = "w_loop"
    /\ attempts' = 0
    /\ UNCHANGED <<mode, output_file, cfgVars, args, interrupted, runs, inputVars, listVars, clock, endVars,
                   is_running, gui, dialogs, search_btn, stop_btn, search_results,
                   progress, stopClicked>>

\* lines 94-96: not the last keyword: msleep(search_delay * 1000)
WorkerPaceWait ==
    /\ mode = "gui" /\ pc = "w_pace"
    /\ i < n
    /\ portLog' = LogSleep
    /\ i' = i + 1
    /\ pc' = "w_loop"
    /\ UNCHANGED <<mode, output_file, cfgVars, args, attempts, interrupted, runs, inputVars, listVars, clock, outstanding,
                   endVars, guiVars>>

\* line 94: the last keyword: no wait
WorkerPaceSkip ==
    /\ mode = "gui" /\ pc = "w_pace"
    /\ ~(i < n)
    /\ i' = i + 1
    /\ pc' = "w_loop"
    /\ UNCHANGED <<mode, output_file, cfgVars, args, attempts, interrupted, runs, inputVars, listVars, envVars, endVars,
                   guiVars>>

\* lines 104-105: progress 100 and search_completed(results) are emitted
WorkerFinish ==
    /\ mode = "gui" /\ pc = "w_finish"
    /\ progress' = 100
    /\ Emit("search_completed", results)
    /\ pc' = "w_done"
    /\ UNCHANGED <<mode, output_file, cfgVars, args, attempts, i, interrupted, runs, inputVars, listVars, envVars, endVars,
                   is_running, gui, dialogs, search_btn, stop_btn, search_results,
                   stopClicked>>

\* ------------------------------------------------------- GoogleSearchGUI

\* the GUI thread is in its event loop (possibly the nested loop of a message box)
EventLoop == gui = "idle"

\* the main window takes input: no message box is open, and Qt delivers the queued
\* worker signals before input events
AcceptsInput == EventLoop /\ dialogs = <<>> /\ queue = <<>>

\* the worker thread has finished (QThread.wait returns)
WorkerFinished == pc \in {"noworker", "w_done"}

\* whenever the search button can be pressed the previous worker has finished, so
\* one set of worker variables describes every worker of the GUI
OneWorker == (mode = "gui" /\ AcceptsInput /\ search_btn) => WorkerFinished

\* start_search, lines 548-575: the search button is pressed with keywords entered
StartSearch ==
    /\ mode = "gui"
    /\ AcceptsInput
    /\ search_btn
    /\ runs < MaxRuns
    /\ \E ks \in KeywordLists \ {<<>>}, d \in Delays :
         /\ clock + Len(ks) <= MaxCalls
         /\ keywords' = ks
         /\ search_delay' = d
    /\ search_btn' = FALSE
    /\ stop_btn' = TRUE
    /\ progress' = 0
    /\ is_running' = TRUE
    /\ emitted' = <<>>
    /\ stopClicked' = FALSE
    /\ runs' = runs + 1
    /\ portLog' = <<>>
    /\ results' = <<>>
    /\ i' = 0
    /\ pc' = "w_init"
    /\ UNCHANGED <<mode, output_file, cfgVars, args, attempts, interrupted, successful_results, failed_keywords,
                   processed_keywords, clock, outstanding, endVars, queue, gui, dialogs,
                   search_results>>

\* stop_search, lines 579-581: search_worker.stop() and the start of wait()
StopSearchBegin ==
    /\ is_running' = FALSE
    /\ gui' = "waiting"

\* the stop button is pressed
StopClick ==
    /\ mode = "gui"
    /\ AcceptsInput
    /\ stop_btn
    /\ StopSearchBegin
    /\ stopClicked' = TRUE
    /\ UNCHANGED <<mode, output_file, cfgVars, args, attempts, pc, i, interrupted, runs, inputVars, listVars, envVars, endVars,
                   queue, dialogs, search_btn, stop_btn, search_results, progress,
                   emitted>>

\* stop_search that does not wait for the worker thread
StopSearchReturn_NoWait ==
    /\ mode = "gui"
    /\ gui = "waiting"
    /\ gui' = "idle"
    /\ search_btn' = TRUE
    /\ stop_btn' = FALSE
    /\ UNCHANGED <<mode, output_file, cfgVars, args, attempts, pc, i, interrupted, runs, inputVars, listVars, envVars, endVars,
                   is_running, queue, dialogs, search_results, progress, emitted,
                   stopClicked>>

\* stop_search, lines 581-586: wait() returns once the worker has finished
StopSearchReturn ==
    /\ mode = "gui"
    /\ gui = "waiting"
    /\ WorkerFinished
    /\ gui' = "idle"
    /\ search_btn' = TRUE
    /\ stop_btn' = FALSE
    /\ UNCHANGED <<mode, output_file, cfgVars, args, attempts, pc, i, interrupted, runs, inputVars, listVars, envVars, endVars,
                   is_running, queue, dialogs, search_results, progress, emitted,
                   stopClicked>>

\* add_result, lines 593-610, run for a queued result_found
AddResult ==
    /\ mode = "gui"
    /\ EventLoop
    /\ queue # <<>> /\ Head(queue).sig = "result_found"
    /\ queue' = Tail(queue)
    /\ search_results' = search_results \o Head(queue).arg
    /\ UNCHANGED <<mode, output_file, cfgVars, args, attempts, pc, i, interrupted, runs, inputVars, listVars, envVars, endVars,
                   is_running, gui, dialogs, search_btn, stop_btn, progress, emitted,
                   stopClicked>>

\* search_finished, lines 612-628, run for a queued search_completed: the buttons
\* are reset and a message box is shown
SearchFinished ==
    /\ mode = "gui"
    /\ EventLoop
    /\ queue # <<>> /\ Head(queue).sig = "search_completed"
    /\ queue' = Tail(queue)
    /\ search_btn' = TRUE
    /\ stop_btn' = FALSE
    /\ dialogs' = Append(dialogs, "completed")
    /\ UNCHANGED <<mode, output_file, cfgVars, args, attempts, pc, i, interrupted, runs, inputVars, listVars, envVars, endVars,
                   is_running, gui, search_results, progress, emitted,
                   stopClicked>>

\* show_error, lines 630-633, run for a queued error_occurred: the message box opens
ShowError ==
    /\ mode = "gui"
    /\ EventLoop
    /\ queue # <<>> /\ Head(queue).sig = "error_occurred"
    /\ queue' = Tail(queue)
    /\ dialogs' = Append(dialogs, "error")
    /\ UNCHANGED <<mode, output_file, cfgVars, args, attempts, pc, i, interrupted, runs, inputVars, listVars, envVars, endVars,
                   is_running, gui, search_btn, stop_btn, search_results, progress,
                   emitted, stopClicked>>

\* the operator closes the innermost message box; behind the error box show_error
\* goes on to stop_search (lines 635-636)
CloseDialog ==
    /\ mode = "gui"
    /\ EventLoop
    /\ dialogs # <<>>
    /\ dialogs' = SubSeq(dialogs, 1, Len(dialogs) - 1)
    /\ IF dialogs[Len(dialogs)] = "error"
       THEN StopSearchBegin
       ELSE UNCHANGED <<is_running, gui>>
    /\ UNCHANGED <<mode, output_file, cfgVars, args, attempts, pc, i, interrupted, runs, inputVars, listVars, envVars, endVars,
                   queue, search_btn, stop_btn, search_results, progress, emitted,
                   stopClicked>>

\* clear_results, lines 638-643
ClearResults ==
    /\ mode = "gui"
    /\ AcceptsInput
    /\ search_results # <<>>
    /\ search_results' = <<>>
    /\ UNCHANGED <<mode, output_file, cfgVars, args, attempts, pc, i, interrupted, runs, inputVars, listVars, envVars, endVars,
                   is_running, queue, gui, dialogs, search_btn, stop_btn, progress,
                   emitted, stopClicked>>

\* ------------------------------------------------------- InputProcessor

\* A string is written as a sequence of runs <<c, k>>: k times the character with
\* code point c. 32 space, 9 tab, 28 file separator (a control character that
\* str.strip takes for whitespace), 1 a control character, 97 a, 35 #, 47 /.
Pieces == {<<32, 1>>, <<9, 1>>, <<28, 1>>, <<1, 1>>, <<97, 1>>, <<35, 1>>, <<47, 1>>,
           <<97, 200>>}

\* runs in a query given on the command line
MaxPieces == 3
\* lines in a keyword file
MaxLines == 3

Strings == SeqsUpTo(Pieces, MaxPieces)

\* the lines a keyword file is made of (without the line terminator): blank,
\* comment, keyword with and without surrounding space, 200 and 201 characters,
\* keyword with a control character
Lines ==
    { <<>>, <<<<32, 1>>>>,
      <<<<35, 1>>>>, <<<<32, 1>>, <<35, 1>>, <<97, 1>>>>, <<<<47, 1>>, <<47, 1>>>>,
      <<<<47, 1>>>>, <<<<97, 1>>>>, <<<<32, 1>>, <<97, 1>>, <<32, 1>>>>,
      <<<<97, 200>>>>, <<<<97, 200>>, <<97, 1>>>>, <<<<97, 1>>, <<1, 1>>, <<97, 1>>>> }

Files == SeqsUpTo(Lines, MaxLines)

\* lines typed at the prompts of the interactive mode before the input ends
MaxEntered == 4

\* the lines typed at the prompts: empty, keyword with and without surrounding
\* space, 201 characters, and the answers y, Y, n
EnteredLines ==
    { <<>>, <<<<97, 1>>>>, <<<<32, 1>>, <<97, 1>>, <<32, 1>>>>, <<<<97, 200>>, <<97, 1>>>>,
      <<<<121, 1>>>>, <<<<89, 1>>>>, <<<<110, 1>>>> }

Entered == SeqsUpTo(EnteredLines, MaxEntered)

\* the command lines: a query, a keyword file (that can be read or not), the
\* interactive mode with what is typed until the input ends, or no input source
ArgsSet ==
    [source : {"query"}, query : Strings]
      \cup [source : {"file"}, readable : {TRUE}, lines : Files]
      \cup [source : {"interactive"}, lines : Entered]
      \cup {[source |-> "file", readable |-> FALSE, lines |-> <<>>], [source |-> "none"]}

\* what the keyword box of the main window holds, line by line
TextSet == [source : {"text"}, lines : Files]

\* len(s)
RECURSIVE StrLen(_)
StrLen(s) == IF s = <<>> THEN 0 ELSE s[1][2] + StrLen(Tail(s))

\* s[p - 1] of Python, p counted from 1
RECURSIVE CharAt(_, _)
CharAt(s, p) == IF p <= s[1][2] THEN s[1][1] ELSE CharAt(Tail(s), p - s[1][2])

\* the characters below 128 that str.strip() removes
IsSpace(c) == c \in {9, 10, 11, 12, 13, 28, 29, 30, 31, 32}

RECURSIVE LStrip(_)
LStrip(s) == IF s # <<>> /\ IsSpace(s[1][1]) THEN LStrip(Tail(s)) ELSE s

RECURSIVE RStrip(_)
RStrip(s) ==
    IF s # <<>> /\ IsSpace(s[Len(s)][1]) THEN RStrip(SubSeq(s, 1, Len(s) - 1)) ELSE s

\* s.strip()
Strip(s) == RStrip(LStrip(s))

\* s.startswith(prefix), prefix a sequence of code points
StartsWith(s, prefix) ==
    /\ StrLen(s) >= Len(prefix)
    /\ \A p \in 1..Len(prefix) : CharAt(s, p) = prefix[p]

\* Python's None, written as a string no input can be
None == <<<<0, 0>>>>

\* the longest keyword accepted
MaxKeywordLength == 200

\* _validate_keyword that rejects a keyword of exactly 200 characters
validate_keyword_RejectsAtLimit(keyword) ==
    IF keyword = <<>> \/ Strip(keyword) = <<>> THEN None
    ELSE LET k == Strip(keyword)
         IN  IF StrLen(k) >= MaxKeywordLength THEN None
             ELSE IF StrLen(k) < 1 THEN None
             ELSE IF \E p \in 1..Len(k) : k[p][1] \notin {9, 10, 13} /\ k[p][1] < 32
                  THEN None
             ELSE k

\* _validate_keyword, lines 262-295
validate_keyword(keyword) ==
    IF keyword = <<>> \/ Strip(keyword) = <<>> THEN None
    ELSE LET k == Strip(keyword)
         IN  IF StrLen(k) > MaxKeywordLength THEN None
             ELSE IF StrLen(k) < 1 THEN None
             ELSE IF \E p \in 1..Len(k) : k[p][1] \notin {9, 10, 13} /\ k[p][1] < 32
                  THEN None
             ELSE k

\* `if validated_keyword:` of Python
Truthy(v) == v # None /\ v # <<>>

\* the loop of read_keywords_from_file, lines 236-246, over the lines left
RECURSIVE ReadLines(_, _)
ReadLines(lines, acc) ==
    IF lines = <<>> THEN acc
    ELSE LET line == Strip(Head(lines))
         IN  IF line = <<>> \/ StartsWith(line, <<35>>) \/ StartsWith(line, <<47, 47>>)
             THEN ReadLines(Tail(lines), acc)
             ELSE LET validated_keyword == validate_keyword(line)
                  IN  IF Truthy(validated_keyword)
                      THEN ReadLines(Tail(lines), Append(acc, validated_keyword))
                      ELSE ReadLines(Tail(lines), acc)

\* the loop, leaving the file at the first line that fails the validation
RECURSIVE ReadLinesUntilInvalid(_, _)
ReadLinesUntilInvalid(lines, acc) ==
    IF lines = <<>> THEN acc
    ELSE LET line == Strip(Head(lines))
         IN  IF line = <<>> \/ StartsWith(line, <<35>>) \/ StartsWith(line, <<47, 47>>)
             THEN ReadLinesUntilInvalid(Tail(lines), acc)
             ELSE LET validated_keyword == validate_keyword(line)
                  IN  IF Truthy(validated_keyword)
                      THEN ReadLinesUntilInvalid(Tail(lines), Append(acc, validated_keyword))
                      ELSE acc

\* what a call gives back: a keyword list, or InputProcessorError
ReturnsList(ks) == [error |-> FALSE, keywords |-> ks]
Raised == [error |-> TRUE, keywords |-> <<>>]

\* read_keywords_from_file that stops reading at an invalid line
read_keywords_from_file_StopsAtInvalid(a) ==
    IF ~a.readable THEN Raised
    ELSE LET ks == ReadLinesUntilInvalid(a.lines, <<>>)
         IN  IF ks = <<>> THEN Raised ELSE ReturnsList(ks)

\* read_keywords_from_file that returns the empty list of a file without keywords
read_keywords_from_file_ReturnsEmpty(a) ==
    IF ~a.readable THEN Raised ELSE ReturnsList(ReadLines(a.lines, <<>>))

\* read_keywords_from_file, lines 214-260: a file that is missing or cannot be
\* decoded raises; so does a file without a valid keyword
read_keywords_from_file(a) ==
    IF ~a.readable THEN Raised
    ELSE LET ks == ReadLines(a.lines, <<>>)
         IN  IF ks = <<>> THEN Raised ELSE ReturnsList(ks)

\* s.lower(), for the letters A-Z
Lower(s) == [p \in 1..Len(s) |->
               IF s[p][1] \in 65..90 THEN <<s[p][1] + 32, s[p][2]>> ELSE s[p]]

\* the answers that confirm and that cancel (lines 346 and 348): y, yes and hai;
\* n, no and iie
YesAnswers == {<<<<121, 1>>>>, <<<<121, 1>>, <<101, 1>>, <<115, 1>>>>,
               <<<<12399, 1>>, <<12356, 1>>>>}
NoAnswers == {<<<<110, 1>>>>, <<<<110, 1>>, <<111, 1>>>>, <<<<12356, 2>>, <<12360, 1>>>>}

\* the confirmation prompt that takes the keywords without asking
ConfirmLines_Unasked(rest, kws) == ReturnsList(kws)

\* the confirmation prompt, lines 344-354, over the lines still to come: at the end
\* of the input the prompt raises EOFError, which line 362 turns into
\* InputProcessorError
RECURSIVE ConfirmLines(_, _)
ConfirmLines(rest, kws) ==
    IF rest = <<>> THEN Raised
    ELSE LET confirm == Lower(Strip(Head(rest)))
         IN  IF confirm \in YesAnswers THEN ReturnsList(kws)
             ELSE IF confirm \in NoAnswers THEN ReturnsList(<<>>)
             ELSE ConfirmLines(Tail(rest), kws)

\* lines 340-357: behind the collection loop
AfterCollect(rest, kws) ==
    IF kws # <<>> THEN ConfirmLines(rest, kws) ELSE ReturnsList(<<>>)

\* the collection loop, lines 316-338, over the lines still to come: the end of the
\* input (EOFError) leaves the loop, an empty line leaves it once a keyword was
\* taken and is asked again before
RECURSIVE CollectLines(_, _)
CollectLines(stream, kws) ==
    IF stream = <<>> THEN AfterCollect(<<>>, kws)
    ELSE LET keyword == Strip(Head(stream))
         IN  IF keyword = <<>>
             THEN IF kws # <<>> THEN AfterCollect(Tail(stream), kws)
                                ELSE CollectLines(Tail(stream), kws)
             ELSE LET validated_keyword == validate_keyword(keyword)
                  IN  IF Truthy(validated_keyword)
                      THEN CollectLines(Tail(stream), Append(kws, validated_keyword))
                      ELSE CollectLines(Tail(stream), kws)

\* interactive_input, lines 297-364 (Ctrl+C goes to the signal handler of
\* SearchTool, so KeyboardInterrupt is not raised at the prompt)
interactive_input(a) == CollectLines(a.lines, <<>>)

\* process_input, lines 366-399
process_input(a) ==
    IF a.source = "query" /\ a.query # <<>>
    THEN LET validated_keyword == validate_keyword(a.query)
         IN  IF Truthy(validated_keyword) THEN ReturnsList(<<validated_keyword>>) ELSE Raised
    ELSE IF a.source = "file" THEN read_keywords_from_file(a)
    ELSE IF a.source = "interactive" THEN interactive_input(a)
    ELSE Raised

\* the list comprehension of start_search, line 556: the lines of the box that are
\* not blank, trimmed
RECURSIVE TextKeywords(_)
TextKeywords(lines) ==
    IF lines = <<>> THEN <<>>
    ELSE LET k == Strip(Head(lines))
         IN  (IF k # <<>> THEN <<k>> ELSE <<>>) \o TextKeywords(Tail(lines))

\* start_search, lines 548-575, with the text of the keyword box in args: without a
\* keyword a warning box opens and nothing is started (lines 552-559), else the
\* worker is started with the lines of the box
StartSearchText ==
    /\ mode = "gui"
    /\ args # NoArgs
    /\ AcceptsInput
    /\ search_btn
    /\ runs < MaxRuns
    /\ IF TextKeywords(args.lines) = <<>>
       THEN /\ dialogs' = Append(dialogs, "warning")
            /\ UNCHANGED <<pc, i, runs, inputVars, results, portLog, is_running, search_btn,
                           stop_btn, progress, emitted, stopClicked>>
       ELSE /\ keywords' = TextKeywords(args.lines)
            /\ \E d \in Delays : search_delay' = d
            /\ search_btn' = FALSE
            /\ stop_btn' = TRUE
            /\ progress' = 0
            /\ is_running' = TRUE
            /\ emitted' = <<>>
            /\ stopClicked' = FALSE
            /\ runs' = runs + 1
            /\ portLog' = <<>>
            /\ results' = <<>>
            /\ i' = 0
            /\ pc' = "w_init"
            /\ UNCHANGED dialogs
    /\ UNCHANGED <<mode, output_file, cfgVars, args, attempts, interrupted, successful_results, failed_keywords,
                   processed_keywords, clock, outstanding, endVars, queue, gui,
                   search_results>>

\* ProcessInputArgs that goes on to the connection test with an empty list
ProcessInputArgs_ConnectsAnyway ==
    /\ mode = "cli" /\ pc = "args"
    /\ args # NoArgs
    /\ LET r == process_input(args)
       IN  IF r.error
           THEN Return(1) /\ UNCHANGED inputVars
           ELSE /\ keywords' = r.keywords
                /\ \E d \in Delays : search_delay' = d
                /\ pc' = "conn"
                /\ UNCHANGED endVars
    /\ UNCHANGED <<mode, output_file, cfgVars, args, attempts, i, interrupted, runs, listVars, envVars, guiVars>>

\* run, lines 353-356 and 383-387, with the command line in args: process_input
\* returns the keyword list or raises
ProcessInputArgs ==
    /\ mode = "cli" /\ pc = "args"
    /\ args # NoArgs
    /\ LET r == process_input(args)
       IN  IF r.error \/ r.keywords = <<>>
           THEN Return(1) /\ UNCHANGED inputVars
           ELSE /\ keywords' = r.keywords
                /\ \E d \in Delays : search_delay' = d
                /\ pc' = "conn"
                /\ UNCHANGED endVars
    /\ UNCHANGED <<mode, output_file, cfgVars, args, attempts, i, interrupted, runs, listVars, envVars, guiVars>>

\* SearchTool() is constructed for a command line, or the main window is shown
\* and keywords are typed into its box
InitInput ==
    /\ \/ mode = "cli" /\ pc = "start" /\ args \in ArgsSet
       \/ mode = "gui" /\ pc = "noworker" /\ args \in TextSet
    /\ keywords = <<>>
    /\ search_delay = 0
    /\ i = 0
    /\ results = <<>>
    /\ successful_results = <<>>
    /\ failed_keywords = <<>>
    /\ processed_keywords = <<>>
    /\ interrupted = FALSE
    /\ runs = 0
    /\ clock = 0
    /\ portLog = <<>>
    /\ outstanding = 0
    /\ saves = <<>>
    /\ cleanups = 0
    /\ exitCode = -1
    /\ signal_pc = ""
    /\ is_running = FALSE
    /\ queue = <<>>
    /\ gui = "idle"
    /\ dialogs = <<>>
    /\ search_btn = TRUE
    /\ stop_btn = FALSE
    /\ search_results = <<>>
    /\ progress = 0
    /\ emitted = <<>>
    /\ stopClicked = FALSE
    /\ attempts = 0
    /\ environ = NoEnviron
    /\ config_data = EmptyDict
    /\ output_file = ""

\* SearchTool.run for every command line and the GUI run for every text of the
\* keyword box, from the input to the search calls (with an engine that answers
\* every call)
NextInput ==
    \/ Initialize
    \/ ProcessInputArgs
    \/ TestConnection
    \/ RunSearchBegin
    \/ LoopExhausted
    \/ SearchCall
    \/ SearchSucceeds
    \/ PaceWait
    \/ PaceSkip
    \/ StartSearchText
    \/ WorkerInit
    \/ WorkerTestConnection
    \/ WorkerLoopExhausted
    \/ WorkerLoopRunning
    \/ WorkerSearchCall
    \/ WorkerSearchSucceeds
    \/ WorkerPaceWait
    \/ WorkerPaceSkip

SpecInput == InitInput /\ [][NextInput]_vars

\* ------------------------------------------------- InputProcessor.parse_arguments

\* a float given to --delay: a number of seconds, or NaN (float("nan")), which
\* every comparison answers with False
Float(v) == [nan |-> FALSE, v |-> v]
NaN == [nan |-> TRUE, v |-> 0]
Below(x, c) == ~x.nan /\ x.v < c
Above(x, c) == ~x.nan /\ x.v > c

\* the values tried for --delay, --retry and --timeout; <<>> is None (option absent)
DelayValues == {Float(-1), Float(0), Float(1), Float(60), Float(61), NaN}
RetryValues == {<<>>, <<-1>>, <<0>>, <<10>>, <<11>>}
TimeoutValues == {<<>>, <<0>>, <<1>>, <<300>>, <<301>>}

\* what -f names: no -f given, the empty string, a path that exists, one that does not
InputFiles == {"None", "", "exists", "missing"}

\* the Namespace argparse builds from a command line it accepts (one input source,
\* well-formed numbers), or its refusal (usage error: SystemExit)
Namespaces ==
    [source : {"namespace"}, input_file : InputFiles, search_delay : DelayValues,
     retry_count : RetryValues, timeout : TimeoutValues, verbose : BOOLEAN, quiet : BOOLEAN]
      \cup {[source |-> "usage_error"]}

\* _validate_arguments, lines 158-180: TRUE when it returns, FALSE when it raises
\* InputProcessorError (`args.input_file and ...` skips None and the empty string)
validate_arguments(a) ==
    IF Below(a.search_delay, 0) \/ Above(a.search_delay, 60) THEN FALSE
    ELSE IF a.retry_count # <<>> /\ (a.retry_count[1] < 0 \/ a.retry_count[1] > 10) THEN FALSE
    ELSE IF a.timeout # <<>> /\ (a.timeout[1] < 1 \/ a.timeout[1] > 300) THEN FALSE
    ELSE IF a.input_file \notin {"None", ""} /\ a.input_file # "exists" THEN FALSE
    ELSE IF a.verbose /\ a.quiet THEN FALSE
    ELSE TRUE

\* parse_arguments, lines 130-156: the Namespace is returned, InputProcessorError
\* is raised, or the SystemExit of argparse is passed on
parse_arguments(a) ==
    IF a.source = "usage_error" THEN "SystemExit"
    ELSE IF validate_arguments(a) THEN "returned"
    ELSE "InputProcessorError"

\* run, lines 339-342 and 388-389, with initialize (lines 106-141) for the command
\* line in args: parse_arguments returns and the rest of initialize succeeds or
\* fails; InputProcessorError is caught by initialize, which returns False;
\* SystemExit passes through run (and its finally clause) and ends the process
\* with the status of argparse
InitializeArgs ==
    /\ mode = "cli" /\ pc = "start"
    /\ args # NoArgs
    /\ LET r == parse_arguments(args)
       IN  IF r = "returned"
           THEN \E ok \in BOOLEAN :
                   IF ok THEN pc' = "args" /\ UNCHANGED endVars
                         ELSE Return(1)
           ELSE IF r = "InputProcessorError"
           THEN Return(1)
           ELSE Return(2)
    /\ UNCHANGED <<mode, output_file, cfgVars, args, attempts, i, interrupted, runs, inputVars, listVars, envVars, guiVars>>

\* every variable but mode, pc, args and environ, as SearchTool() and the main window
\* leave them
Fresh ==
    /\ keywords = <<>>
    /\ search_delay = 0
    /\ i = 0
    /\ results = <<>>
    /\ successful_results = <<>>
    /\ failed_keywords = <<>>
    /\ processed_keywords = <<>>
    /\ interrupted = FALSE
    /\ runs = 0
    /\ clock = 0
    /\ portLog = <<>>
    /\ outstanding = 0
    /\ saves = <<>>
    /\ cleanups = 0
    /\ exitCode = -1
    /\ signal_pc = ""
    /\ is_running = FALSE
    /\ queue = <<>>
    /\ gui = "idle"
    /\ dialogs = <<>>
    /\ search_btn = TRUE
    /\ stop_btn = FALSE
    /\ search_results = <<>>
    /\ progress = 0
    /\ emitted = <<>>
    /\ stopClicked = FALSE
    /\ attempts = 0
    /\ config_data = EmptyDict
    /\ output_file = ""

\* SearchTool() is constructed for a command line with options
InitArgs ==
    /\ mode = "cli" /\ pc = "start"
    /\ args \in Namespaces
    /\ environ = NoEnviron
    /\ Fresh

\* SearchTool.run up to the end of initialize, for every command line
SpecArgs == InitArgs /\ [][InitializeArgs]_vars

\* ---------------------------------------------------------------- ConfigManager

\* configuration values: an int, a str or a bool of Python
IntValue(v) == [type |-> "int", num |-> v, text |-> <<>>]
StrValue(s) == [type |-> "str", num |-> 0, text |-> s]
BoolValue(b) == [type |-> "bool", num |-> IF b THEN 1 ELSE 0, text |-> <<>>]

\* the sections and keys followed here: two keys that the environment can set
\* and that are converted to int, one that it can set as a string, and one it
\* cannot set
DefaultConfig ==
    [search |-> [retry_count |-> IntValue(3), timeout |-> IntValue(10)],
     logging |-> [level |-> StrValue(<<<<73, 1>>, <<78, 1>>, <<70, 1>>, <<79, 1>>>>),
                  console_output |-> BoolValue(TRUE)]]

Sections == DOMAIN DefaultConfig

\* keys a configuration file may name: the default ones and one more
FileKeys == {"retry_count", "timeout", "level", "console_output", "user_agent"}

\* what the file gives for a key it names (never the default, never what the
\* environment gives)
FileValue(k) ==
    CASE k = "retry_count" -> IntValue(7)
      [] k = "timeout" -> IntValue(20)
      [] k = "level" -> StrValue(<<<<68, 1>>, <<69, 1>>, <<66, 1>>, <<85, 1>>, <<71, 1>>>>)
      [] k = "console_output" -> BoolValue(FALSE)
      [] OTHER -> StrValue(<<<<120, 1>>>>)

\* the JSON objects of a configuration file: any of the sections, each an
\* object naming any of the keys
FileConfigs ==
    { [s \in {t \in Sections : c[t].present} |-> [k \in c[s].keys |-> FileValue(k)]] :
        c \in [Sections -> [present : BOOLEAN, keys : SUBSET FileKeys]] }

env_mappings ==
    << [var |-> "LOG_LEVEL", path |-> <<"logging", "level">>],
       [var |-> "SEARCH_RETRY_COUNT", path |-> <<"search", "retry_count">>],
       [var |-> "SEARCH_TIMEOUT", path |-> <<"search", "timeout">>] >>

EnvVars == {env_mappings[m].var : m \in 1..Len(env_mappings)}

\* values of the environment variables: "5", " 5 ", "05", "-1", "abc", "" for
\* the numbers, "WARNING" and "" for the level
EnvValues(var) ==
    CASE var = "SEARCH_RETRY_COUNT" ->
           { <<<<53, 1>>>>, <<<<32, 1>>, <<53, 1>>, <<32, 1>>>>, <<<<48, 1>>, <<53, 1>>>>,
             <<<<45, 1>>, <<49, 1>>>>, <<<<97, 1>>, <<98, 1>>, <<99, 1>>>>, <<>> }
      [] var = "SEARCH_TIMEOUT" ->
           { <<<<53, 1>>>>, <<<<97, 1>>, <<98, 1>>, <<99, 1>>>> }
      [] OTHER ->
           { <<<<87, 1>>, <<65, 1>>, <<82, 1>>, <<78, 1>>, <<73, 1>>, <<78, 1>>, <<71, 1>>>>,
             <<>> }

Environments ==
    UNION { {e \in [D -> UNION {EnvValues(v) : v \in D}] : \A v \in D : e[v] \in EnvValues(v)} :
              D \in SUBSET EnvVars }

\* what ConfigManager() can find: a file that is read as a JSON object (or none,
\* or one json.load rejects), the environment after load_dotenv, and the
\* skip_validation argument
Environs ==
    [readable : {TRUE}, file : FileConfigs, env : Environments, skip_validation : BOOLEAN]
      \cup [readable : {FALSE}, file : {EmptyDict}, env : Environments,
            skip_validation : BOOLEAN]

\* the digits of a decimal literal, most significant first
IsDigits(t) == t # <<>> /\ \A p \in 1..Len(t) : t[p][1] \in 48..57

RECURSIVE Decimal(_, _)
Decimal(t, acc) ==
    IF t = <<>> THEN acc
    ELSE Decimal(IF t[1][2] = 1 THEN Tail(t) ELSE <<<<t[1][1], t[1][2] - 1>>>> \o Tail(t),
                 acc * 10 + (t[1][1] - 48))

\* the sign of a literal that has one ("+" or "-", once)
Signed(t) == t # <<>> /\ t[1] \in {<<43, 1>>, <<45, 1>>}

\* int(value) succeeds: surrounding space, an optional sign, decimal digits
IntParses(value) ==
    LET t == Strip(value) IN IsDigits(IF Signed(t) THEN Tail(t) ELSE t)

\* int(value)
IntOf(value) ==
    LET t == Strip(value) IN
      IF Signed(t) THEN (IF t[1][1] = 45 THEN 0 - Decimal(Tail(t), 0) ELSE Decimal(Tail(t), 0))
                   ELSE Decimal(t, 0)

\* _set_nested_value, lines 127-142: the value stored for final_key
Converted(final_key, value) ==
    IF final_key \in {"retry_count", "timeout"}
    THEN (IF IntParses(value) THEN IntValue(IntOf(value)) ELSE StrValue(value))
    ELSE StrValue(value)

RECURSIVE merge_config(_, _, _)
\* dict.update: every key of the file replaces the key of the base
merge_config_Shallow(base_config, file_config, dicts) ==
    [key \in DOMAIN base_config \cup DOMAIN file_config |->
        IF key \in DOMAIN file_config THEN file_config[key] ELSE base_config[key]]
\* _merge_config: a key of the file replaces the key of the base, but where both
\* hold a dict the two are merged key by key (the sections are the dicts)
merge_config(base_config, file_config, dicts) ==
    [key \in DOMAIN base_config \cup DOMAIN file_config |->
        IF key \notin DOMAIN file_config THEN base_config[key]
        ELSE IF key \in DOMAIN base_config /\ dicts
             THEN merge_config(base_config[key], file_config[key], FALSE)
             ELSE file_config[key]]

\* _set_nested_value: config with the value stored at path (section, key)
set_nested_value(config, path, value) ==
    LET current == IF path[1] \in DOMAIN config THEN config[path[1]] ELSE EmptyDict IN
      [s \in DOMAIN config \cup {path[1]} |->
          IF s = path[1]
          THEN [k \in DOMAIN current \cup {path[2]} |->
                   IF k = path[2] THEN Converted(path[2], value) ELSE current[k]]
          ELSE config[s]]

\* _load_config, lines 106-109: the loop over env_mappings from entry m on
RECURSIVE ApplyEnvironment(_, _, _)
ApplyEnvironment(config, env, m) ==
    IF m > Len(env_mappings) THEN config
    ELSE ApplyEnvironment(
           IF env_mappings[m].var \in DOMAIN env
           THEN set_nested_value(config, env_mappings[m].path, env[env_mappings[m].var])
           ELSE config,
           env, m + 1)

\* _load_config: the defaults, then the file, then the environment
load_config(e) ==
    LET merged == IF e.readable THEN merge_config(DefaultConfig, e.file, TRUE)
                                ELSE DefaultConfig
    IN IF e.skip_validation THEN merged ELSE ApplyEnvironment(merged, e.env, 1)

\* ConfigManager.__init__, line 52
LoadConfig ==
    /\ mode = "cli" /\ pc = "start"
    /\ DOMAIN config_data = {}
    /\ config_data' = load_config(environ)
    /\ UNCHANGED <<mode, pc, output_file, environ, args, attempts, i, interrupted, runs, inputVars,
                   listVars, envVars, endVars, guiVars>>

\* ConfigManager() is about to be constructed
InitConfig ==
    /\ mode = "cli" /\ pc = "start"
    /\ args = NoArgs
    /\ environ \in Environs
    /\ Fresh

\* ConfigManager(), for every configuration file and environment
SpecConfig == InitConfig /\ [][LoadConfig]_vars

\* ------------------------------------------------------- SearchTool.initialize

\* isinstance(v, int): an int or a bool
IsInt(v) == v.type \in {"int", "bool"}

\* _validate_config, lines 161-171: the checks of search.retry_count and
\* search.timeout; TRUE when they pass, FALSE when one raises ValueError
validate_config(c) ==
    LET retry_count == c["search"]["retry_count"]
        timeout == c["search"]["timeout"]
    IN  IF ~IsInt(retry_count) \/ retry_count.num < 0 \/ retry_count.num > 10 THEN FALSE
        ELSE IF ~IsInt(timeout) \/ timeout.num < 1 \/ timeout.num > 60 THEN FALSE
        ELSE TRUE

\* _override_config_with_args, lines 158-162: the options given replace the
\* configured values
override_config_with_args(c, a) ==
    [c EXCEPT !["search"] =
        [k \in DOMAIN @ |->
            IF k = "retry_count" /\ a.retry_count # <<>> THEN IntValue(a.retry_count[1])
            ELSE IF k = "timeout" /\ a.timeout # <<>> THEN IntValue(a.timeout[1])
            ELSE @[k]]]

\* run, lines 339-342, with initialize (lines 106-141): ConfigManager() loads
\* and validates the configuration (a ValueError makes initialize return
\* False), parse_arguments reads the command line, the options override the
\* configuration, and the engine and the writer are created from it (required
\* says whether the other checks of _validate_config pass, created whether the
\* rest of initialize succeeds)
InitializeConfigured ==
    /\ mode = "cli" /\ pc = "start"
    /\ DOMAIN config_data = {}
    /\ LET c == load_config(environ)
           r == parse_arguments(args)
       IN  \E required, created \in BOOLEAN :
             IF ~(required /\ validate_config(c))
             THEN Return(1) /\ UNCHANGED config_data
             ELSE IF r = "returned"
             THEN /\ config_data' = override_config_with_args(c, args)
                  /\ IF created THEN pc' = "args" /\ UNCHANGED endVars
                                ELSE Return(1)
             ELSE /\ config_data' = c
                  /\ IF r = "InputProcessorError" THEN Return(1) ELSE Return(2)
    /\ UNCHANGED <<mode, output_file, environ, args, attempts, i, interrupted, runs,
                   inputVars, listVars, envVars, guiVars>>

\* SearchTool() is constructed for a command line with --retry and --timeout
\* options, with a configuration file that has a search section (or none) and
\* the search variables of the environment
InitInitialize ==
    /\ mode = "cli" /\ pc = "start"
    /\ args \in {a \in Namespaces :
                   a.source = "namespace" =>
                     /\ a.input_file = "None" /\ a.search_delay = Float(1)
                     /\ ~a.verbose /\ ~a.quiet}
    /\ environ \in {e \in Environs :
                      /\ ~e.skip_validation
                      /\ DOMAIN e.file \subseteq {"search"}
                      /\ "LOG_LEVEL" \notin DOMAIN e.env}
    /\ Fresh

\* SearchTool.run up to the end of initialize, for every configuration and
\* command line
SpecInitialize == InitInitialize /\ [][InitializeConfigured]_vars

Next ==
    \/ Initialize
    \/ ConnectionTestOnly
    \/ ProcessInput
    \/ ProcessInputRaises
    \/ TestConnection
    \/ InitializeForTest
    \/ CallRunSearch
    \/ RunSearchBegin
    \/ LoopExhausted
    \/ LoopInterrupted
    \/ SearchCall
    \/ EngineRetry
    \/ SearchSucceeds
    \/ SearchSucceedsReportRaises
    \/ SearchNoResult
    \/ SearchRaises
    \/ SearchKeyboardInterrupt
    \/ PaceWait
    \/ PaceSkip
    \/ RunSearchReturn
    \/ HostContinues
    \/ SaveAndExit
    \/ SignalHandler
    \/ SignalHandlerReentered
    \/ SignalBeforeLogger
    \/ WorkerInit
    \/ WorkerTestConnection
    \/ WorkerLoopExhausted
    \/ WorkerLoopStopped
    \/ WorkerLoopRunning
    \/ WorkerSearchCall
    \/ WorkerSearchSucceeds
    \/ WorkerSearchNoResult
    \/ WorkerSearchRaises
    \/ WorkerPaceWait
    \/ WorkerPaceSkip
    \/ WorkerFinish
    \/ StartSearch
    \/ StopClick
    \/ StopSearchReturn
    \/ AddResult
    \/ SearchFinished
    \/ ShowError
    \/ CloseDialog
    \/ ClearResults

Spec == Init /\ [][Next]_vars

\* a step of the worker thread (QThread.run): once started, the thread is scheduled
\* until run returns, and every call it makes (the engine's, bounded by its timeout
\* and retry budget; msleep; emit, which only queues) returns
WorkerStep ==
    \/ WorkerInit
    \/ WorkerTestConnection
    \/ WorkerLoopExhausted
    \/ WorkerLoopStopped
    \/ WorkerLoopRunning
    \/ WorkerSearchCall
    \/ WorkerSearchSucceeds
    \/ WorkerSearchNoResult
    \/ WorkerSearchRaises
    \/ WorkerPaceWait
    \/ WorkerPaceSkip
    \/ WorkerFinish

\* the program with its threads scheduled: the worker thread runs on while the GUI
\* thread is blocked in wait(), and wait() returns once the worker has finished
SpecLive == Spec /\ WF_vars(WorkerStep) /\ WF_vars(StopSearchReturn)

\* ------------------------------------------------- a host calling save_results

\* the result lists a host can hand to save_results
ResultLists == SeqsUpTo({Result(kw, t) : kw \in Keywords, t \in 1..MaxCalls}, MaxKeywords)

\* save_results that hands an empty list to the writer too
save_results_WritesEmpty(rs, kind, w) ==
    [calls |-> <<[kind |-> kind, results |-> rs, outcome |-> w]>>,
     returned |-> IF w = "path" THEN "path" ELSE "None"]

\* save_results, lines 294-327: the calls it makes of csv_writer.write_results
\* (with outcome w) and what it returns, the path or None
save_results(rs, kind, w) ==
    IF rs = <<>>
    THEN [calls |-> <<>>, returned |-> "None"]
    ELSE [calls |-> <<[kind |-> kind, results |-> rs, outcome |-> w]>>,
          returned |-> IF w = "path" THEN "path" ELSE "None"]

\* the host calls save_results(results) on an initialised tool
HostSaveResults ==
    /\ mode = "lib" /\ pc = "save_results"
    /\ \E w \in WriterOutcomes :
         /\ saves' = saves \o save_results(results, "normal", w).calls
         /\ output_file' = save_results(results, "normal", w).returned
    /\ pc' = "saved"
    /\ UNCHANGED <<mode, cfgVars, args, attempts, i, interrupted, runs, inputVars, listVars,
                   envVars, cleanups, exitCode, signal_pc, guiVars>>

\* an initialised tool whose host is about to call save_results with some list
InitSave ==
    /\ mode = "lib" /\ pc = "save_results"
    /\ args = NoArgs
    /\ environ = NoEnviron
    /\ keywords = <<>> /\ search_delay = 0 /\ i = 0
    /\ results \in ResultLists
    /\ successful_results = <<>> /\ failed_keywords = <<>> /\ processed_keywords = <<>>
    /\ interrupted = FALSE /\ runs = 0 /\ clock = 0 /\ portLog = <<>> /\ outstanding = 0
    /\ saves = <<>> /\ cleanups = 0 /\ exitCode = -1 /\ signal_pc = ""
    /\ is_running = FALSE /\ queue = <<>> /\ gui = "idle" /\ dialogs = <<>>
    /\ search_btn = TRUE /\ stop_btn = FALSE /\ search_results = <<>> /\ progress = 0
    /\ emitted = <<>> /\ stopClicked = FALSE /\ attempts = 0
    /\ config_data = EmptyDict /\ output_file = ""

\* the program, and a host that calls save_results directly
SpecSave == (Init \/ InitSave) /\ [][Next \/ HostSaveResults]_vars
\* ================================================================ properties

\* positions of the port log that hold a call of kind op
LogAt(op) == {k \in 1..Len(portLog) : portLog[k].op = op}

Validations == LogAt("validate_ok") \cup LogAt("validate_fail")

\* C1: in SearchTool.run and in SearchWorker.run the connection is validated at
\* most once, every search call comes after the one successful validation, and a
\* failed validation leaves no search call and no result and ends the run with
\* an error (exit code 1, resp. the error signal and no search_completed).
C1_ValidationFirst ==
    mode \in {"cli", "gui"} =>
      /\ Cardinality(Validations) <= 1
      /\ LogAt("search") # {} => portLog[1].op = "validate_ok"
      /\ LogAt("validate_fail") # {} =>
           /\ LogAt("search") = {}
           /\ results = <<>> /\ successful_results = <<>> /\ saves = <<>>
           /\ IF mode = "cli" THEN pc = "done" /\ exitCode = 1
                              ELSE pc = "w_done" /\ emitted = <<"error_occurred">>

\* a command-line run whose connection test failed has ended
C1_Witness == mode = "cli" /\ LogAt("validate_fail") # {} /\ keywords # <<>> /\ pc = "done"

\* the keywords (by position) for which a search call was made in the current run
Called == {portLog[k].i : k \in LogAt("search")}

\* run_search has left its loop / the worker has left its loop
LoopLeft == mode \in {"cli", "lib"} /\ pc \in {"summary", "returned"} /\ keywords # <<>>
WorkerLoopLeft == mode = "gui" /\ pc \in {"w_finish", "w_done"} /\ LogAt("validate_ok") # {}

\* the loop is about to test a flag that is set, with keyword i still to do
FlagSeen ==
    \/ mode \in {"cli", "lib"} /\ pc = "loop" /\ i <= n /\ interrupted
    \/ mode = "gui" /\ pc = "w_loop" /\ i <= n /\ ~is_running

\* C2, state part: a loop left with keyword i not done has the flag set
\* (interrupted is true at the end of the run) and made search calls for the
\* keywords before i only (and for i itself when the call for i was the one
\* interrupted by KeyboardInterrupt).
C2_LoopLeftEarly ==
    /\ (LoopLeft /\ i <= n) =>
          /\ interrupted
          /\ Called = 1..(IF LogAt("kbd") # {} THEN i ELSE i - 1)
    /\ (WorkerLoopLeft /\ i <= n) =>
          /\ ~is_running
          /\ Called = 1..(i - 1)

\* C2, step part: the step that tests a set flag leaves the loop (or the process),
\* and an entry is added to the result list or to failed_keywords only by the
\* return of the search call for the current keyword, so a keyword that was not
\* attempted gets no entry in either list.
C2_FlagStep ==
    /\ (FlagSeen /\ pc' # pc) => pc' \in {"summary", "exited", "w_finish"}
    /\ (results' # results /\ results' # <<>>) =>
          /\ pc \in {"searching", "w_searching"} /\ i \in Called
          /\ \E t \in 1..clock : results' = Append(results, Result(keywords[i], t))
    /\ failed_keywords' # failed_keywords =>
          /\ pc = "searching" /\ i \in Called
          /\ failed_keywords' = Append(failed_keywords, keywords[i])

\* C2: in run_search (and in the worker's loop) the cancellation flag is tested
\* before each keyword; once it is seen set no search call is made for that or any
\* later keyword, no entry for them enters the result list or failed_keywords, and
\* interrupted is true at the end of the run.
C2_CancellationCheckedPerKeyword == []C2_LoopLeftEarly /\ [][C2_FlagStep]_vars

\* a second run_search on the same tool saw the flag set before its first keyword
C2_Witness ==
    /\ mode = "lib" /\ pc = "summary" /\ interrupted
    /\ i = 1 /\ n >= 2 /\ portLog = <<>> /\ results = <<>>

\* the results the engine has returned in the current run, in order of return
Returned ==
    LET rets == SelectSeq(portLog, LAMBDA e : e.op \in {"ok", "badTitle"})
    IN  [k \in 1..Len(rets) |-> Result(keywords[rets[k].i], rets[k].t)]

\* a signal arrived between two keywords: after keyword Done, before keyword Done + 1
SignalBetweenKeywords ==
    /\ pc = "exited"
    /\ signal_pc \in {"loop", "pace"}
    /\ (IF signal_pc = "loop" THEN i - 1 ELSE i) < n

\* C3 as stated, for SearchTool.run: a signal between two keywords sets interrupted,
\* leaves exactly the results of the keywords done so far, and the emergency save
\* is invoked with them.
C3_Original ==
    (mode = "cli" /\ SignalBetweenKeywords) =>
      /\ interrupted
      /\ results = Returned
      /\ Len(saves) = 1
      /\ saves[1].kind = "emergency" /\ saves[1].results = results

\* C3 amended: a signal between two keywords sets interrupted and leaves exactly
\* the results of the keywords done so far; the emergency save is invoked, with
\* successful_results, exactly when successful_results is not empty (nothing
\* is written when no result has been collected), and in SearchTool.run
\* successful_results is that partial result list.
C3_EmergencySaveOfPartialResults ==
    SignalBetweenKeywords =>
      /\ interrupted
      /\ results = Returned
      /\ IF successful_results = <<>>
         THEN saves = <<>>
         ELSE /\ saves # <<>>
              /\ \A k \in 1..Len(saves) :
                    saves[k].kind = "emergency" /\ saves[k].results = successful_results
      /\ mode = "cli" => successful_results = results

\* a signal after the first of several keywords, with its result saved
C3_Witness ==
    /\ mode = "cli" /\ SignalBetweenKeywords /\ signal_pc = "pace"
    /\ i = 1 /\ Len(results) = 1 /\ Len(saves) = 1

\* C4, command line part: a run_search loop that ends without the flag set has made
\* a search call for every keyword, whatever the earlier calls returned or raised.
C4_CliAllAttempted == (LoopLeft /\ ~interrupted) => Called = 1..n

\* C4, GUI part: a worker whose loop has ended without the operator pressing stop
\* has made a search call for every keyword.
C4_GuiAllAttempted == (WorkerLoopLeft /\ ~stopClicked) => Called = 1..n

\* C4: a failed keyword never aborts the run: absent cancellation every later
\* keyword is still attempted, in run_search and in the GUI run.
C4_FailureNeverAborts == C4_CliAllAttempted /\ C4_GuiAllAttempted

\* how often x occurs in the sequence s
Count(s, x) == Cardinality({k \in 1..Len(s) : s[k] = x})

\* the keyword list names no keyword twice
NoRepeat(s) == \A j, k \in 1..Len(s) : s[j] = s[k] => j = k

\* the keywords of the results in the run's result list
ResultKeywords == {results[k].keyword : k \in 1..Len(results)}

\* C5: in a run_search call (on a fresh tool, over a list without repeated keywords)
\* every keyword whose call returned nothing or raised is in failed_keywords, and
\* every keyword in failed_keywords is there exactly once and has no result in the
\* result list, also when an error is raised after the result was appended.
C5_FailedOnceNeverInResults ==
    (mode \in {"cli", "lib"} /\ runs = 1 /\ NoRepeat(keywords)) =>
      /\ \A k \in LogAt("none") \cup LogAt("err") :
           Count(failed_keywords, keywords[portLog[k].i]) = 1
      /\ \A k \in 1..Len(failed_keywords) :
           /\ Count(failed_keywords, failed_keywords[k]) = 1
           /\ failed_keywords[k] \notin ResultKeywords

\* the same, for runs in which every returned result could be reported
C5_WithoutReportError == LogAt("badTitle") = {} => C5_FailedOnceNeverInResults

\* the first run_search call on the tool is between its first line and its return
InFirstRunSearch ==
    /\ mode \in {"cli", "lib"} /\ runs = 1
    /\ pc \in {"loop", "searching", "pace", "summary", "returned"}

\* C6: at every point of a run_search call on a fresh tool, results and
\* failed_keywords together hold at most as many entries as keywords were
\* submitted, and exactly as many once the loop has ended without interruption.
C6_CountsBoundedByRequested ==
    InFirstRunSearch =>
      /\ Len(results) + Len(failed_keywords) <= n
      /\ (pc \in {"summary", "returned"} /\ ~interrupted) =>
            Len(results) + Len(failed_keywords) = n

\* the same, for runs in which every returned result could be reported
C6_WithoutReportError == LogAt("badTitle") = {} => C6_CountsBoundedByRequested

\* the engine time of the search call for keyword j of the current run
CallTime(j) == (CHOOSE e \in {portLog[k] : k \in LogAt("search")} : e.i = j).t

\* the call for every keyword of the list has returned a result that was reported
AllSucceeded == \A j \in 1..n : \E k \in LogAt("ok") : portLog[k].i = j

\* C7: when the search call succeeds for every keyword and nothing cancels the run,
\* run_search returns as many results as keywords, the j-th result being the one
\* returned for the j-th keyword, and (on a fresh tool) failed_keywords is empty.
C7_AllSucceedInOrder ==
    (LoopLeft /\ AllSucceeded) =>
      /\ Len(results) = n
      /\ \A j \in 1..n : results[j] = Result(keywords[j], CallTime(j))
      /\ runs = 1 => failed_keywords = <<>>

\* a command-line run of three keywords that all succeeded has returned
C7_Witness ==
    /\ mode = "cli" /\ pc = "returned" /\ n = 3 /\ AllSucceeded /\ ~interrupted
    /\ keywords[1] # keywords[2]

\* the ways a search call ends
ReturnOps == {"ok", "none", "err", "auth", "kbd", "badTitle"}

\* the search calls of the current run, in the order they were started
Calls == SelectSeq(portLog, LAMBDA e : e.op = "search")

\* the run whose calls are in portLog has created its list of results (line 200)
RunHasList == "run_search" \notin {pc, signal_pc}

\* C8: search calls are issued one at a time and in input order: at most one call
\* is outstanding, the k-th call of a run is the call for keyword k, between the
\* starts of two calls the earlier one has returned or raised, and the collected
\* results are those of the keywords that succeeded, in input order (from the
\* point where the run has created its list).
C8_OneCallAtATimeInOrder ==
    /\ outstanding <= 1
    /\ \A k \in 1..Len(Calls) : Calls[k].i = k
    /\ \A k, m \in LogAt("search") :
          k < m => \E r \in (k + 1)..(m - 1) :
                      portLog[r].op \in ReturnOps /\ portLog[r].i = portLog[k].i
    /\ RunHasList =>
          /\ results = Returned
          /\ \A j, k \in 1..Len(results) :
                j < k => \E a, b \in 1..n : /\ a < b
                                            /\ results[j].keyword = keywords[a]
                                            /\ results[k].keyword = keywords[b]

\* a worker thread has called for three keywords, the second without success
C8_Witness ==
    /\ mode = "gui" /\ pc = "w_finish" /\ Len(Calls) = 3 /\ Len(results) = 2
    /\ \E k \in LogAt("err") \cup LogAt("none") : portLog[k].i = 2

\* positions k < m of portLog that hold the starts of two consecutive calls
ConsecutiveCalls ==
    {<<k, m>> \in LogAt("search") \X LogAt("search") :
        k < m /\ \A r \in (k + 1)..(m - 1) : portLog[r].op # "search"}

\* C9: with a positive delay, between the attempts of two consecutive keywords of
\* a run the pacing wait is performed, whether the earlier call returned a result,
\* returned none or raised an error.
C9_PacedBetweenAttempts ==
    search_delay > 0 =>
      \A c \in ConsecutiveCalls :
         (\E r \in (c[1] + 1)..(c[2] - 1) : portLog[r].op \in {"ok", "none", "err"})
           => \E r \in (c[1] + 1)..(c[2] - 1) : portLog[r].op = "sleep"

\* C9 for the keywords whose call returned (a result or none): the part that holds
C9_PacedAfterReturn ==
    search_delay > 0 =>
      \A c \in ConsecutiveCalls :
         (\E r \in (c[1] + 1)..(c[2] - 1) : portLog[r].op \in {"ok", "none"})
           => \E r \in (c[1] + 1)..(c[2] - 1) : portLog[r].op = "sleep"

\* the calls and waits of the current run, without the connection test
RunLog == SelectSeq(portLog, LAMBDA e : e.op \notin {"validate_ok", "validate_fail"})

\* C10: a run of n >= 1 keywords that all succeed, with a positive delay, performs
\* exactly n - 1 pacing waits: one after the call of each keyword but the last,
\* before the call of the next keyword, and none after the last keyword.
C10_WaitsBetweenKeywordsOnly ==
    ((LoopLeft \/ WorkerLoopLeft) /\ n >= 1 /\ AllSucceeded /\ search_delay > 0) =>
      /\ Len(SelectSeq(portLog, LAMBDA e : e.op = "sleep")) = n - 1
      /\ Len(RunLog) = 3 * n - 1
      /\ \A j \in 1..n :
            /\ RunLog[3 * j - 2] = [op |-> "search", i |-> j, t |-> CallTime(j)]
            /\ RunLog[3 * j - 1] = [op |-> "ok", i |-> j, t |-> CallTime(j)]
            /\ j < n => RunLog[3 * j] = [op |-> "sleep", i |-> j, t |-> CallTime(j)]

\* a worker thread has ended a run of three keywords that all succeeded, with a
\* positive delay
C10_Witness ==
    /\ mode = "gui" /\ pc = "w_done" /\ n = 3 /\ AllSucceeded /\ search_delay > 0

\* SearchTool.run has ended, on the completed path: the loop was not interrupted
\* and no signal arrived
RunEnded == mode = "cli" /\ pc \in {"done", "exited"}
CompletedPath == ~interrupted /\ signal_pc = ""

\* C11: a run of SearchTool.run hands its results to the writer by the normal
\* save only on the completed path and by the emergency save only on the
\* interrupted and fatal paths; a run whose loop was left by an interruption is
\* not saved through the normal save (stated for runs in which every returned
\* result could be reported).
C11_SaveMatchesPath ==
    (RunEnded /\ LogAt("badTitle") = {}) =>
      \A k \in 1..Len(saves) :
         /\ saves[k].kind = "normal" => CompletedPath
         /\ saves[k].kind = "emergency" => ~CompletedPath

\* C11, the part that holds: the emergency save is used only by the signal handler
C11_EmergencyOnlyFromSignal ==
    \A k \in 1..Len(saves) :
       saves[k].kind = "emergency" => (pc = "exited" /\ interrupted /\ signal_pc # "")

\* the last call of the writer failed: it raised or returned no path
LastSaveFailed == saves # <<>> /\ saves[Len(saves)].outcome # "path"

\* a step in which the writer is called and fails
SaveFails == Len(saves') = Len(saves) + 1 /\ saves'[Len(saves')].outcome # "path"

\* C12: when the writer raises or returns no path during a save, the lists of
\* collected results are left as they were, the failure is reported (the process
\* ends with exit code 1), and no search call or retry follows.
C12_SinkFailureKeepsResults ==
    /\ []((pc \in {"done", "exited"} /\ LastSaveFailed) => exitCode = 1)
    /\ [][SaveFails =>
            /\ UNCHANGED <<listVars, clock, portLog>>
            /\ saves'[Len(saves')].results \in {results, successful_results}
            /\ pc' \in {"done", "exited"}]_vars
    /\ [][(mode \in {"cli", "lib"} /\ pc \in {"done", "exited"}) =>
            UNCHANGED <<listVars, clock, portLog, saves>>]_vars

\* a command-line run whose two results the writer failed to write has ended
C12_Witness ==
    /\ mode = "cli" /\ pc = "done" /\ Len(results) = 2
    /\ LastSaveFailed /\ saves[1].outcome = "raise" /\ saves[1].results = results

\* C13: the cancellation flag is monotone: no step resets SearchTool.interrupted
\* once it is true, no step of a worker's run sets SearchWorker.is_running back to
\* true (only the start of a new worker does), and setting the flag when it is
\* already set changes nothing of the flag.
C13_FlagMonotone ==
    /\ [][interrupted => interrupted']_vars
    /\ [][(mode = "gui" /\ ~is_running /\ runs' = runs) => ~is_running']_vars

\* a second run_search on a tool whose first run was interrupted tests the flag
C13_Witness ==
    /\ mode = "lib" /\ runs = 2 /\ pc = "loop" /\ interrupted /\ n >= 1

\* a step of a slot connected to result_found or error_occurred: add_result or
\* show_error takes the queued signal, or show_error goes on behind its message box
NotificationSlotStep ==
    /\ mode = "gui"
    /\ \/ /\ queue # <<>>
          /\ Head(queue).sig \in {"result_found", "error_occurred"}
          /\ queue' = Tail(queue)
       \/ /\ dialogs # <<>>
          /\ dialogs[Len(dialogs)] = "error"
          /\ dialogs' = SubSeq(dialogs, 1, Len(dialogs) - 1)

\* the worker is inside its loop with a keyword still to call for
WorkerInLoop ==
    /\ mode = "gui"
    /\ \/ pc = "w_loop" /\ i <= n
       \/ pc \in {"w_call", "w_searching", "w_pace"} /\ i < n

\* C14: the notifications are a side channel: a slot that handles a notification
\* of a worker still in its loop changes nothing the worker's control flow reads
\* (is_running, the keyword list, the delay, the loop position), so the search
\* calls made are the same whether or not the slots run.
C14_SlotsLeaveWorkerAlone ==
    [][(WorkerInLoop /\ NotificationSlotStep) =>
          UNCHANGED <<is_running, keywords, search_delay, pc, i, portLog>>]_vars

\* C14, the part that holds: add_result and the opening of the error box
C14_QueuedSlotsLeaveWorkerAlone ==
    [][(WorkerInLoop /\ NotificationSlotStep /\ dialogs' # SubSeq(dialogs, 1, Len(dialogs) - 1))
         => UNCHANGED <<is_running, keywords, search_delay, pc, i, portLog>>]_vars

\* an attempt inside a search call fails and the engine tries again
AttemptLost == attempts' = attempts + 1

\* a search call of run_search returns a result that is reported
OkStep ==
    /\ mode \in {"cli", "lib"} /\ pc = "searching"
    /\ Len(portLog') = Len(portLog) + 1 /\ portLog'[Len(portLog')].op = "ok"

\* C15: when the engine loses the first k < RetryBudget attempts of a keyword and
\* then succeeds, run_search sees one successful call: a lost attempt changes no
\* list and starts no new call, the result of the call is appended whatever number
\* of attempts was lost, and a run in which every call ended with a result has a
\* result for every keyword, in order, and (on a fresh tool) none failed.
C15_RetryMasksTransientFailure ==
    /\ [](attempts < RetryBudget)
    /\ [][AttemptLost => UNCHANGED <<pc, i, listVars, envVars, interrupted>>]_vars
    /\ [][OkStep => /\ results' = Append(results, Result(keywords[i], clock))
                    /\ UNCHANGED failed_keywords]_vars
    /\ []((LoopLeft /\ AllSucceeded) =>
            /\ [j \in 1..Len(results) |-> results[j].keyword] = keywords
            /\ runs = 1 => failed_keywords = <<>>)

\* the call for the last of two keywords has lost every attempt but the last one of
\* its budget, the first keyword has its result
C15_Witness ==
    /\ mode = "cli" /\ pc = "searching" /\ n = 2 /\ i = 2
    /\ attempts = RetryBudget - 1 /\ attempts > 0
    /\ Len(results) = 1 /\ failed_keywords = <<>>

\* C16: a search call that fails with an authentication error ends the run early:
\* the keyword is recorded as failed (in run_search) and no search call is made
\* for a later keyword.
C16_AuthErrorEndsRun ==
    \A k \in LogAt("auth") :
       /\ mode \in {"cli", "lib"} =>
             \E f \in 1..Len(failed_keywords) : failed_keywords[f] = keywords[portLog[k].i]
       /\ \A m \in LogAt("search") : m < k

\* C16, the part that holds: the keyword is recorded as failed
C16_AuthErrorRecorded ==
    (mode \in {"cli", "lib"} /\ signal_pc = "") =>
       \A k \in LogAt("auth") :
          \E f \in 1..Len(failed_keywords) : failed_keywords[f] = keywords[portLog[k].i]

\* a search call returns without error and without a result
NoResultStep == Len(portLog') = Len(portLog) + 1 /\ portLog'[Len(portLog')].op = "none"

\* C17 as stated: a call that returns no result adds nothing to the result lists
\* and the keyword is not appended to failed_keywords.
C17_Original ==
    [][NoResultStep => UNCHANGED <<results, successful_results, failed_keywords>>]_vars

\* C17, amended: a call that returns no result adds nothing to the result lists and
\* is paced like a success; run_search appends the keyword to failed_keywords and to
\* processed_keywords, the GUI worker records it nowhere and emits no error signal.
C17_NoResultExcludedFromResults ==
    [][NoResultStep =>
         /\ UNCHANGED <<results, successful_results, i>>
         /\ IF mode = "gui"
            THEN /\ UNCHANGED <<failed_keywords, processed_keywords, queue, emitted>>
                 /\ pc' = "w_pace"
            ELSE /\ failed_keywords' = Append(failed_keywords, keywords[i])
                 /\ processed_keywords' = Append(processed_keywords, keywords[i])
                 /\ pc' = "pace"]_vars

\* a command-line run of two keywords: a result for the first, none for the second
C17_Witness ==
    /\ mode = "cli" /\ pc = "returned" /\ n = 2 /\ ~interrupted
    /\ \E k \in LogAt("ok") : portLog[k].i = 1
    /\ \E k \in LogAt("none") : portLog[k].i = 2
    /\ Len(results) = 1 /\ failed_keywords = <<keywords[2]>>

\* what the claims say of a string: its trimmed form is not empty, has at most 200
\* characters and holds no control character other than tab, LF and CR
Acceptable(s) ==
    LET t == Strip(s)
    IN  /\ t # <<>>
        /\ StrLen(t) <= 200
        /\ \A p \in 1..Len(t) : t[p][1] < 32 => t[p][1] \in {9, 10, 13}

\* run reads the command line in this step
InputStep(source) == pc = "args" /\ args.source = source /\ pc' # pc

\* C18: _validate_keyword returns the trimmed input exactly when the trimmed string
\* is not empty, has at most 200 characters and no control character other than
\* tab, LF and CR, and None otherwise; validating an accepted result returns it
\* unchanged. A run given the string as its query goes on with exactly that
\* keyword, or ends with exit code 1.
C18_ValidateKeyword ==
    /\ [](args.source = "query" =>
            LET v == validate_keyword(args.query)
            IN  /\ v = IF Acceptable(args.query) THEN Strip(args.query) ELSE None
                /\ v # None => validate_keyword(v) = v)
    /\ [][InputStep("query") =>
            IF Acceptable(args.query)
            THEN keywords' = <<Strip(args.query)>> /\ pc' = "conn"
            ELSE keywords' = <<>> /\ pc' = "done" /\ exitCode' = 1]_vars

\* a query of 200 characters behind a space was trimmed and accepted
C18_Witness ==
    /\ pc = "conn" /\ args.source = "query"
    /\ Len(keywords) = 1 /\ keywords[1] # args.query /\ StrLen(keywords[1]) = 200

\* the lines of a file that the claims say are kept, trimmed, in file order
RECURSIVE KeptLines(_)
KeptLines(lines) ==
    IF lines = <<>> THEN <<>>
    ELSE LET t == Strip(Head(lines))
             keep == /\ t # <<>>
                     /\ ~(StrLen(t) >= 1 /\ CharAt(t, 1) = 35)
                     /\ ~(StrLen(t) >= 2 /\ CharAt(t, 1) = 47 /\ CharAt(t, 2) = 47)
                     /\ Acceptable(t)
         IN  (IF keep THEN <<t>> ELSE <<>>) \o KeptLines(Tail(lines))

\* C19: read_keywords_from_file returns, in file order, exactly the trimmed lines
\* that are not blank, do not start with # or // and pass the validation; a blank,
\* comment or over-long line is dropped and the lines after it are still read.
C19_FileLinesFiltered ==
    /\ []((args.source = "file" /\ args.readable /\ KeptLines(args.lines) # <<>>) =>
            read_keywords_from_file(args) = ReturnsList(KeptLines(args.lines)))
    /\ [][(InputStep("file") /\ args.readable /\ KeptLines(args.lines) # <<>>) =>
            keywords' = KeptLines(args.lines) /\ pc' = "conn"]_vars

\* a file of three lines with an over-long line in the middle gave two keywords
C19_Witness ==
    /\ pc = "conn" /\ args.source = "file" /\ Len(args.lines) = 3
    /\ StrLen(Strip(args.lines[2])) > 200
    /\ keywords = <<Strip(args.lines[1]), Strip(args.lines[3])>>

\* C20: a keyword file without a valid keyword makes read_keywords_from_file raise
\* InputProcessorError instead of returning an empty list, and SearchTool.run then
\* ends with exit code 1 with no connection test and no search call made.
C20_EmptyFileIsAnError ==
    /\ []((args.source = "file" /\ args.readable /\ KeptLines(args.lines) = <<>>) =>
            /\ read_keywords_from_file(args) = Raised
            /\ pc \in {"start", "args", "done"}
            /\ portLog = <<>> /\ clock = 0 /\ keywords = <<>>
            /\ pc = "done" => exitCode = 1)
    /\ [][(InputStep("file") /\ args.readable /\ KeptLines(args.lines) = <<>>) =>
            pc' = "done" /\ exitCode' = 1]_vars

\* a run over a file of a blank line, a comment and an over-long line has ended
C20_Witness ==
    /\ pc = "done" /\ exitCode = 1 /\ args.source = "file" /\ args.readable
    /\ Len(args.lines) = 3 /\ KeptLines(args.lines) = <<>>
    /\ Strip(args.lines[1]) = <<>>
    /\ StartsWith(Strip(args.lines[2]), <<35>>)
    /\ StrLen(args.lines[3]) > 200
    /\ cleanups = 1

\* the run collected results and the normal save wrote them to a file
SavedResults ==
    /\ results # <<>>
    /\ saves # <<>>
    /\ saves[Len(saves)].kind = "normal"
    /\ saves[Len(saves)].results = results
    /\ saves[Len(saves)].outcome = "path"

\* the run was one of --test-connection and the connection test succeeded
ConnectionTestPassed == keywords = <<>> /\ LogAt("validate_ok") # {}

\* C23 as stated: SearchTool.run ends with exit code 0 exactly when at least one
\* result was collected and the save of the results returned a path, and with 1 on
\* every other path.
C23_Original ==
    RunEnded => /\ exitCode \in {0, 1}
                /\ exitCode = 0 <=> SavedResults

\* C23, amended: SearchTool.run ends with exit code 0 exactly when at least one
\* result was collected and the save of the results returned a path, or when the
\* run was a --test-connection run whose connection test succeeded; every other
\* path (initialization failure, no keywords, connectivity failure, zero results,
\* save failure, caught exception, signal) ends with 1.
C23_ExitCode ==
    RunEnded => /\ exitCode \in {0, 1}
                /\ exitCode = 0 <=> (SavedResults \/ ConnectionTestPassed)

\* a --test-connection run has ended with a successful connection test
C23_Witness ==
    /\ mode = "cli" /\ pc = "done" /\ exitCode = 0
    /\ ConnectionTestPassed /\ results = <<>> /\ saves = <<>>

\* the worker has emitted the signal sig
Emitted(sig) == \E k \in 1..Len(emitted) : emitted[k] = sig

\* C27: a cancelled run can be told from a completed one: a worker emits progress
\* 100 and search_completed only when a search call was made for every keyword of
\* its list, never after a stop that left keywords without a call.
C27_CompletionOnlyWhenAllAttempted ==
    (mode = "gui" /\ keywords # <<>> /\ Called # 1..n) =>
        /\ progress # 100
        /\ ~Emitted("search_completed")

\* C27, the part that holds: search_completed is emitted once at most, after the
\* loop, and a run whose connection test failed emits none
C27_CompletedAfterLoop ==
    mode = "gui" =>
        /\ Count(emitted, "search_completed") <= 1
        /\ Emitted("search_completed") => (pc = "w_done" /\ LogAt("validate_ok") # {})

\* C29: on every path by which SearchTool.run ends after the search engine was
\* created (return, error return, caught exception, signal handled during the
\* run), _cleanup is executed exactly once.
C29_CleanupExactlyOnce ==
    (RunEnded /\ signal_pc # "start") => cleanups = 1

\* C29, the part that holds: a run that no signal ended runs _cleanup once
C29_CleanupOnceWithoutSignal ==
    (RunEnded /\ signal_pc = "") => cleanups = 1

\* C30: a termination signal delivered at any moment after the SearchTool was
\* constructed, also before initialize has set the logger, sets interrupted and
\* ends the process through _cleanup_and_exit with exit status 1.
C30_SignalAlwaysInterrupts ==
    (mode = "cli" /\ signal_pc # "") =>
        /\ interrupted
        /\ pc = "exited"
        /\ exitCode = 1

\* C30, the part that holds: a signal handled once the logger exists
C30_SignalAfterLogger ==
    (mode = "cli" /\ signal_pc \notin {"", "start"}) =>
        /\ interrupted
        /\ pc = "exited"
        /\ exitCode = 1

\* the emergency saves made so far
EmergencySaves == {k \in 1..Len(saves) : saves[k].kind = "emergency"}

\* C28: the emergency save is performed at most once per process: a termination
\* signal that arrives while the handler is executing _cleanup_and_exit starts no
\* second save of the results.
C28_EmergencySaveAtMostOnce == Cardinality(EmergencySaves) <= 1

\* C28, the part that holds: every emergency save is made by a signal handler and
\* writes successful_results as they were when the signal arrived
C28_EmergencySavesAreTheHandlers ==
    \A k \in EmergencySaves :
       pc = "exited" /\ interrupted /\ saves[k].results = successful_results

\* a search call is started in this step
CallStarted == Len(portLog') = Len(portLog) + 1 /\ portLog'[Len(portLog')].op = "search"

\* the worker emits search_completed in this step
CompletedEmitted ==
    /\ Len(emitted') = Len(emitted) + 1
    /\ emitted'[Len(emitted')] = "search_completed"

\* stop() has been called on the worker, which has not finished
StoppedRunning == mode = "gui" /\ ~is_running /\ ~WorkerFinished

\* C26, the parts on the search calls, on termination and on what search_completed
\* carries: once stop() has been called the loop starts no iteration (a call is
\* started only for the keyword whose iteration had passed the test of the flag),
\* the worker thread then ends and wait() returns, and search_completed carries
\* the results as they were when the loop was left.
C26_StopEndsWorker ==
    /\ [][(StoppedRunning /\ pc = "w_loop") =>
            (pc' \in {"w_loop", "w_finish"} /\ UNCHANGED <<i, results, portLog>>)]_vars
    /\ [][(StoppedRunning /\ CallStarted) =>
            (pc = "w_call" /\ portLog'[Len(portLog')].i = i)]_vars
    /\ [][(mode = "gui" /\ pc = "w_finish") => UNCHANGED results]_vars
    /\ [][(mode = "gui" /\ CompletedEmitted) =>
            (pc = "w_finish" /\ queue'[Len(queue')].arg = results /\ results = Returned)]_vars
    /\ StoppedRunning ~> WorkerFinished
    /\ (mode = "gui" /\ gui = "waiting") ~> (gui = "idle")

\* C26 as stated: after stop() is called on a running SearchWorker no search call
\* is started for a keyword whose iteration had not begun, the worker thread ends
\* (wait() returns), and the worker emits search_completed exactly once, carrying
\* the results collected before the stop was observed.
C26_Original ==
    /\ C26_StopEndsWorker
    /\ []((mode = "gui" /\ stopClicked /\ pc = "w_done") =>
             Count(emitted, "search_completed") = 1)

\* C26, amended: as stated, for a worker whose initialization and connection test
\* succeed; a worker whose initialization or connection test fails, stopped or
\* not, emits error_occurred once and no search_completed.
C26_StopEndsWorkerCompletedOnce ==
    /\ C26_StopEndsWorker
    /\ []((mode = "gui" /\ pc = "w_done") =>
             IF LogAt("validate_ok") # {}
             THEN Count(emitted, "search_completed") = 1
             ELSE emitted = <<"error_occurred">>)

\* a worker stopped during the call for the first of three keywords has ended with
\* the result of that call, and wait() has returned
C26_Witness ==
    /\ mode = "gui" /\ stopClicked /\ pc = "w_done" /\ gui = "idle"
    /\ n = 3 /\ Called = {1} /\ Len(results) = 1
    /\ emitted = <<"result_found", "search_completed">>

\* a search call is under way, for keyword i of the list
InSearchCall == pc \in {"searching", "w_searching"}

\* C21: every keyword handed to the search operation, by SearchTool.run behind
\* process_input and by the worker that start_search starts, is a valid search
\* term: trimmed, not empty, of at most 200 characters and without control
\* characters other than tab, LF and CR.
C21_KeywordsHandedAreValid ==
    InSearchCall => (Acceptable(keywords[i]) /\ Strip(keywords[i]) = keywords[i])

\* C21, the part that holds: the command-line path
C21_CliKeywordsAreValid ==
    (mode = "cli" /\ InSearchCall) =>
        (Acceptable(keywords[i]) /\ Strip(keywords[i]) = keywords[i])

\* the valid ones among entered lines, trimmed, in the order entered
RECURSIVE EnteredValid(_)
EnteredValid(lines) ==
    IF lines = <<>> THEN <<>>
    ELSE (IF Acceptable(Head(lines)) THEN <<Strip(Head(lines))>> ELSE <<>>)
            \o EnteredValid(Tail(lines))

\* the positions of the empty lines among the entered lines
EmptyAt(lines) == {k \in 1..Len(lines) : Strip(lines[k]) = <<>>}

\* the smallest element of a non-empty set of numbers
Min(S) == CHOOSE k \in S : \A m \in S : k <= m

\* the positions of the empty lines entered behind at least one valid keyword
TerminatorAt(lines) ==
    {k \in EmptyAt(lines) : EnteredValid(SubSeq(lines, 1, k - 1)) # <<>>}

\* the answer given at the confirmation prompt by the lines rest: the first one
\* that is a yes or a no, if any
RECURSIVE Answer(_)
Answer(rest) ==
    IF rest = <<>> THEN "none"
    ELSE IF Lower(Strip(Head(rest))) \in YesAnswers THEN "yes"
    ELSE IF Lower(Strip(Head(rest))) \in NoAnswers THEN "no"
    ELSE Answer(Tail(rest))

\* C22 as stated: the interactive collection stops at the first empty line, and the
\* keywords returned are the valid lines entered before it, in order (or none, when
\* the confirmation is refused).
C22_Original ==
    (args.source = "interactive" /\ EmptyAt(args.lines) # {} /\ pc = "conn") =>
        keywords = EnteredValid(SubSeq(args.lines, 1, Min(EmptyAt(args.lines)) - 1))

\* what C22, amended, says interactive_input gives for the entered lines
InteractiveResult(lines) ==
    IF TerminatorAt(lines) # {}
    THEN LET k == Min(TerminatorAt(lines))
             answer == Answer(SubSeq(lines, k + 1, Len(lines)))
         IN  IF answer = "yes" THEN ReturnsList(EnteredValid(SubSeq(lines, 1, k - 1)))
             ELSE IF answer = "no" THEN ReturnsList(<<>>)
             ELSE Raised
    ELSE IF EnteredValid(lines) = <<>> THEN ReturnsList(<<>>) ELSE Raised

\* C22, amended: the interactive collection stops at the first empty line entered
\* after at least one valid keyword (an empty line before that is answered by a
\* new prompt), and the keywords returned are the valid lines entered before that
\* line, in order, when the confirmation is answered yes; none are returned when
\* it is answered no or when no valid keyword was entered, and the input ending
\* before the answer is an error. A run goes on with exactly the returned keywords
\* or ends with exit code 1.
C22_InteractiveCollection ==
    /\ [](args.source = "interactive" =>
            interactive_input(args) = InteractiveResult(args.lines))
    /\ [][InputStep("interactive") =>
            LET r == InteractiveResult(args.lines)
            IN  IF r.error \/ r.keywords = <<>>
                THEN pc' = "done" /\ exitCode' = 1 /\ keywords' = <<>>
                ELSE pc' = "conn" /\ keywords' = r.keywords]_vars

\* an empty line, a keyword, the empty line that ends the collection and the
\* answer y were entered, and the run goes on with the keyword
C22_Witness ==
    /\ pc = "conn" /\ args.source = "interactive" /\ Len(args.lines) = 4
    /\ EmptyAt(args.lines) = {1, 3}
    /\ keywords = <<Strip(args.lines[2])>>
    /\ Lower(args.lines[4]) \in YesAnswers

\* lo <= x <= hi for a float x
InRange(x, lo, hi) == ~x.nan /\ lo <= x.v /\ x.v <= hi

\* what C25 asks of the arguments
ValidArguments(a) ==
    /\ InRange(a.search_delay, 0, 60)
    /\ a.retry_count = <<>> \/ (0 <= a.retry_count[1] /\ a.retry_count[1] <= 10)
    /\ a.timeout = <<>> \/ (1 <= a.timeout[1] /\ a.timeout[1] <= 300)
    /\ a.input_file = "None" \/ a.input_file = "exists"
    /\ ~(a.verbose /\ a.quiet)

\* initialize (and parse_arguments in it) has run
Parsed == pc \in {"args", "done"}

\* C25: parse_arguments accepts the arguments exactly when search_delay is in
\* [0, 60], retry_count is absent or in [0, 10], timeout is absent or in [1, 300],
\* the input file, if given, exists, and --verbose and --quiet are not both set;
\* otherwise it raises InputProcessorError and no arguments are returned (run
\* ends with exit code 1).
C25_AcceptsExactlyValidArguments ==
    (args.source = "namespace" /\ Parsed) =>
        /\ pc = "args" => ValidArguments(args)
        /\ ~ValidArguments(args) => (pc = "done" /\ exitCode = 1)

\* C25, the part that holds: for a delay that is a number and a file name that is
\* not empty
C25_AcceptsExactlyValidNumbers ==
    (args.source = "namespace" /\ ~args.search_delay.nan /\ args.input_file # "") =>
        /\ parse_arguments(args) = IF ValidArguments(args) THEN "returned"
                                   ELSE "InputProcessorError"
        /\ Parsed =>
              /\ pc = "args" => ValidArguments(args)
              /\ ~ValidArguments(args) => (pc = "done" /\ exitCode = 1)

\* the environment variable mapped to a key, if any
MappedVars(s, k) ==
    {env_mappings[m].var : m \in {x \in 1..Len(env_mappings) : env_mappings[x].path = <<s, k>>}}

InFile(s, k) ==
    environ.readable /\ s \in DOMAIN environ.file /\ k \in DOMAIN environ.file[s]

InEnvironment(s, k) ==
    ~environ.skip_validation /\ MappedVars(s, k) \cap DOMAIN environ.env # {}

\* the keys a section must hold: the default ones and the ones the file names
KeysOf(s) ==
    DOMAIN DefaultConfig[s]
      \cup (IF environ.readable /\ s \in DOMAIN environ.file THEN DOMAIN environ.file[s] ELSE {})

\* the value of a key by precedence: environment, then file, then default
Resolved(s, k) ==
    IF InEnvironment(s, k)
    THEN Converted(k, environ.env[CHOOSE v \in MappedVars(s, k) : v \in DOMAIN environ.env])
    ELSE IF InFile(s, k) THEN environ.file[s][k] ELSE DefaultConfig[s][k]

Loaded == DOMAIN config_data # {}

\* C24: once the configuration is loaded, every key holds the value of the
\* environment variable mapped to it (as _set_nested_value converts it) if that
\* variable is set and skip_validation is false, else the value the
\* configuration file gives it, else the built-in default; a section the file
\* names keeps the default keys the file does not name
C24_ConfigurationPrecedence ==
    Loaded =>
      /\ DOMAIN config_data = Sections
      /\ \A s \in Sections :
            /\ DOMAIN config_data[s] = KeysOf(s)
            /\ \A k \in KeysOf(s) : config_data[s][k] = Resolved(s, k)

\* all three sources at work in one section: the file names retry_count only,
\* the environment sets it too, and timeout is left to the default
C24_Witness ==
    /\ Loaded
    /\ ~environ.skip_validation
    /\ environ.readable
    /\ "search" \in DOMAIN environ.file
    /\ DOMAIN environ.file["search"] = {"retry_count"}
    /\ DOMAIN environ.env = {"SEARCH_RETRY_COUNT"}
    /\ config_data["search"]["retry_count"] = IntValue(5)
    /\ config_data["search"]["timeout"] = IntValue(10)
    /\ config_data["logging"] = DefaultConfig["logging"]

\* a run_search call is between the creation of its result list and its return
InRunSearch ==
    /\ mode \in {"cli", "lib"}
    /\ pc \in {"loop", "searching", "pace", "summary"}

\* the keywords handed to the current run_search call
CurrentKeywords == {keywords[j] : j \in 1..n}

\* C31: at every point of a run_search call, also a second one on the same
\* SearchTool, successful_results (what an emergency save would write) equals
\* the call's own result list and failed_keywords holds only keywords of the
\* current call.
C31_RunStateIsTheCurrentRuns ==
    InRunSearch =>
      /\ successful_results = results
      /\ \A k \in 1..Len(failed_keywords) : failed_keywords[k] \in CurrentKeywords

\* C31, the part that holds: the first run_search call on a tool
C31_FirstRunStateIsItsOwn == runs = 1 => C31_RunStateIsTheCurrentRuns

\* a signal handler runs _cleanup_and_exit in this step
CleanupAndExitStep == pc # "exited" /\ pc' = "exited"

\* C32: save_results called with an empty list makes no call of the CSV writer and
\* returns None; _cleanup_and_exit calls the save exactly when successful_results
\* holds at least one result, and with none it writes nothing and exits with
\* status 1.
C32_NothingToSaveWritesNothing ==
    /\ [](pc = "saved" /\ results = <<>> => saves = <<>> /\ output_file = "None")
    /\ [][CleanupAndExitStep =>
             /\ exitCode' = 1
             /\ IF successful_results = <<>>
                THEN saves' = saves
                ELSE /\ Len(saves') > Len(saves)
                     /\ \A k \in Len(saves) + 1..Len(saves') :
                           saves'[k].kind = "emergency"]_vars

\* the host has saved an empty list and, with nothing collected, a signal has
\* ended the process
C32_Witness ==
    /\ signal_pc = "saved" /\ pc = "exited"
    /\ results = <<>> /\ output_file = "None"
    /\ successful_results = <<>> /\ saves = <<>> /\ exitCode = 1

\* initialize has returned True
Initialized == pc = "args" /\ Loaded

\* C33: after initialize succeeds, search.retry_count is an integer in 0..10 and
\* search.timeout an integer in 1..60, whatever the configuration file, the
\* environment and the accepted command-line options were.
C33_EffectiveConfigInRange ==
    Initialized =>
      /\ IsInt(config_data["search"]["retry_count"])
      /\ config_data["search"]["retry_count"].num \in 0..10
      /\ IsInt(config_data["search"]["timeout"])
      /\ config_data["search"]["timeout"].num \in 1..60

\* C33, the part that holds: retry_count is in its range, and timeout is in the
\* range of the command line, 1..300
C33_EffectiveConfigInWiderRange ==
    Initialized =>
      /\ IsInt(config_data["search"]["retry_count"])
      /\ config_data["search"]["retry_count"].num \in 0..10
      /\ IsInt(config_data["search"]["timeout"])
      /\ config_data["search"]["timeout"].num \in 1..300

\* C33, the part that holds: without a --timeout option the range is kept
C33_ConfiguredTimeoutInRange ==
    (Initialized /\ args.timeout = <<>>) => C33_EffectiveConfigInRange

\* C34: in the GUI the search button and the stop button are never both
\* enabled, and whenever the search button is enabled the worker thread has
\* finished (or none was started), so that a new worker is started only when no
\* worker runs.
C34_ButtonsExcludeAndNoWorkerWhenSearchable ==
    mode = "gui" =>
      /\ ~(search_btn /\ stop_btn)
      /\ search_btn => WorkerFinished

\* the stop button was pressed, stop_search has returned with the search button
\* enabled again, and the stopped worker's search_completed is still queued
C34_Witness ==
    /\ mode = "gui" /\ stopClicked /\ gui = "idle"
    /\ search_btn /\ ~stop_btn /\ pc = "w_done"
    /\ queue # <<>> /\ Head(queue).sig = "search_completed"

\* search_finished runs in this step, for the search_completed at the head of
\* the queue
SearchFinishedStep ==
    /\ mode = "gui"
    /\ queue # <<>> /\ Head(queue).sig = "search_completed"
    /\ queue' = Tail(queue)

\* C35: when search_finished runs, search_results (the list the table shows and
\* the CSV save writes) equals the list its search_completed carries: the
\* results of the search just run and none of an earlier search, whatever
\* searches, stops and clears came before.
C35_ShownResultsAreTheSearchs ==
    [][SearchFinishedStep => search_results = Head(queue).arg]_vars

\* C35, the part that holds: the first search of a window in which the results
\* were not cleared meanwhile shows exactly its own results
C35_FirstSearchShowsItsOwn ==
    [][(SearchFinishedStep /\ runs = 1 /\ Len(search_results) >= Len(Head(queue).arg))
          => search_results = Head(queue).arg]_vars

\* C35, the part about earlier searches alone: when search_finished runs,
\* search_results holds no result that its search_completed does not carry
C35_NoResultOfEarlierSearch ==
    [][SearchFinishedStep =>
         \A k \in 1..Len(search_results) :
            \E m \in 1..Len(Head(queue).arg) : search_results[k] = Head(queue).arg[m]]_vars

\* process_input returns the empty list for the command line
YieldsNoKeywords == ~process_input(args).error /\ process_input(args).keywords = <<>>

\* C36: in SearchTool.run the input is processed before the connection is
\* tested: the connection is validated only once the input has given keywords,
\* and when process_input returns an empty list (e.g. the interactive
\* confirmation was declined) run returns 1 with no validation, no search call
\* and no save.
C36_NoKeywordsNoConnectionTest ==
    /\ []((mode = "cli" /\ Validations # {}) => keywords # <<>>)
    /\ []((mode = "cli" /\ args # NoArgs /\ YieldsNoKeywords) =>
            /\ pc \in {"start", "args", "done"}
            /\ portLog = <<>> /\ clock = 0 /\ saves = <<>>)
    /\ [][(mode = "cli" /\ pc = "args" /\ pc' # "args" /\ YieldsNoKeywords) =>
            pc' = "done" /\ exitCode' = 1]_vars

\* keywords were entered at the prompts, the confirmation was answered n, and the
\* run has ended
C36_Witness ==
    /\ mode = "cli" /\ pc = "done" /\ exitCode = 1
    /\ args.source = "interactive" /\ Len(args.lines) = 3
    /\ Strip(args.lines[1]) # <<>> /\ args.lines[2] = <<>>
    /\ Lower(Strip(args.lines[3])) \in NoAnswers
    /\ YieldsNoKeywords
    /\ portLog = <<>> /\ saves = <<>> /\ cleanups = 1

====
